---- MODULE Spec2Model ----
(***************************************************************************)
(* A model of a-json-library (contactandyc/a-json-library).                *)
(*                                                                         *)
(* Part 1: the ordered map engine of include/a-json-library/impl/ajson.h   *)
(* (the current implementation, lines 817 onwards): one object, its       *)
(* doubly linked entry list and the single `root` slot that holds either   *)
(* the sorted snapshot used by ajsono_get or the tree used by              *)
(* ajsono_find, told apart by num_sorted_entries.                          *)
(*                                                                         *)
(* Part 2: the goto state machine of ajson_parse in src/ajson.c.           *)
(***************************************************************************)
EXTENDS Integers, Sequences, FiniteSets, TLC

(***************************************************************************)
(* Bounds.                                                                 *)
(***************************************************************************)
MaxEntries == 3     \* entries one object may allocate in a run
MaxTok == 4         \* bytes of the longest token handed to the parser
MaxDepth == 3       \* containers a nested document is wrapped in
MaxStr == 4         \* bytes between the quotes of a string token
MaxStep == 3        \* the widest indent step asked of the pretty writer
MaxBytes == 4       \* bytes of the longest string handed to the codec
MaxPieces == 3      \* escapes and bytes in a text handed to the decoder
MaxNodes == 5       \* entries one array may allocate in a run
MaxTail == 2        \* bytes that follow a complete document in a text
MaxRow == 3         \* bytes after the [ of a text with line ends
MaxGap == 2         \* bytes between a key and its colon

Ents == 1..MaxEntries
Keys == {1, 2}      \* two key strings, ordered as strcmp orders them
Vals == {1, 2}      \* two value nodes a caller may attach
NULL == 0
NUL == "NUL"        \* the byte '\0'

VARIABLES
  obj,              \* the _ajsono_t, its entries and the parents of the values
  op,               \* the last call: <<name, key, what root held when it was made, item>>
  ret,              \* what the last call returned
  hist,             \* what the calls made on the object so far amount to
  ps,               \* ajson_parse: its locals, the buffer and the nodes it made
  em,               \* the emitters: what was asked of them and what they wrote
  cs,               \* the escape codec and the UTF-8 filter: input and results
  ar                \* the _ajsona_t, its entries and the parents of the items

objvars == <<obj, op, ret, hist>>
vars == <<obj, op, ret, hist, ps, em, cs, ar>>

\* no parse is under way
ParseIdle == [pc |-> "idle"]

\* nothing has been emitted
EmitIdle ==
  [pc |-> "idle", round |-> 1, first |-> <<>>, need |-> 0, dump |-> <<>>,
   step |-> 0, size |-> 0, pretty |-> <<>>, report |-> <<>>]

\* the codec has been handed nothing
CodecIdle == [pc |-> "idle"]

\* no array has been made
ArrayIdle == [pc |-> "idle"]

(***************************************************************************)
(* Walking the entry list.                                                 *)
(***************************************************************************)
RECURSIVE Walk(_, _, _)
Walk(link, n, fuel) ==
  IF n = NULL \/ fuel = 0 THEN <<>>
  ELSE <<n>> \o Walk(link, link[n], fuel - 1)

\* ajsono_first / ajsono_next until NULL
ListFwd(s) == Walk(s.next, s.head, MaxEntries + 1)
\* ajsono_last / ajsono_previous until NULL
ListBwd(s) == Walk(s.previous, s.tail, MaxEntries + 1)

Range(f) == {f[i] : i \in DOMAIN f}

\* the first element of a sequence of entries whose key is k, or NULL
FirstWithKey(s, seq, k) ==
  LET hits == {i \in DOMAIN seq : s.key[seq[i]] = k}
  IN IF hits = {} THEN NULL
     ELSE seq[CHOOSE i \in hits : \A j \in hits : i <= j]

(***************************************************************************)
(* ajsono(): a zero-filled object.                                         *)
(***************************************************************************)
ajsono ==
  [ num_entries        |-> 0,
    root               |-> "NULL",
    num_sorted_entries |-> 0,
    head               |-> NULL,
    tail               |-> NULL,
    sorted             |-> <<>>,       \* the array root points to
    tree               |-> {},         \* the entries linked below root
    nalloc             |-> 0,          \* entries allocated from the pool
    key                |-> [e \in Ents |-> NULL],
    value              |-> [e \in Ents |-> NULL],
    next               |-> [e \in Ents |-> NULL],
    previous           |-> [e \in Ents |-> NULL],
    parent             |-> [v \in Vals |-> "NULL"] ]  \* item->parent

\* an append that drops an active snapshot the way set does
ajsono_append_dropping(s, k, item) ==
  LET on == s.nalloc + 1
      s1 == [s EXCEPT !.nalloc = on,
                      !.key[on] = k,
                      !.value[on] = item,
                      !.parent[item] = "j",
                      !.num_entries = @ + 1,
                      !.root = IF s.num_sorted_entries # 0 THEN "NULL" ELSE @,
                      !.sorted = <<>>,
                      !.num_sorted_entries = 0]
  IN IF s.head = NULL
       THEN [s1 EXCEPT !.head = on, !.tail = on]
       ELSE [s1 EXCEPT !.previous[on] = s.tail,
                       !.next[s.tail] = on,
                       !.tail = on]

\* an append that links the new entry in front of the head
ajsono_append_front(s, k, item) ==
  LET on == s.nalloc + 1
      s1 == [s EXCEPT !.nalloc = on,
                      !.key[on] = k,
                      !.value[on] = item,
                      !.parent[item] = "j",
                      !.num_entries = @ + 1]
  IN IF s.head = NULL
       THEN [s1 EXCEPT !.head = on, !.tail = on]
       ELSE [s1 EXCEPT !.next[on] = s.head,
                       !.previous[s.head] = on,
                       !.head = on]

\* an append that leaves the parent of the item as it was
ajsono_append_no_parent(s, k, item) ==
  LET on == s.nalloc + 1
      s1 == [s EXCEPT !.nalloc = on,
                      !.key[on] = k,
                      !.value[on] = item,
                      !.num_entries = @ + 1]
  IN IF s.head = NULL
       THEN [s1 EXCEPT !.head = on, !.tail = on]
       ELSE [s1 EXCEPT !.previous[on] = s.tail,
                       !.next[s.tail] = on,
                       !.tail = on]

(***************************************************************************)
(* ajsono_append                                                           *)
(***************************************************************************)
ajsono_append(s, k, item) ==
  LET on == s.nalloc + 1
      s1 == [s EXCEPT !.nalloc = on,
                      !.key[on] = k,
                      !.value[on] = item,
                      !.parent[item] = "j",
                      !.num_entries = @ + 1]
  IN IF s.head = NULL
       THEN [s1 EXCEPT !.head = on, !.tail = on]
       ELSE [s1 EXCEPT !.previous[on] = s.tail,
                       !.next[s.tail] = on,
                       !.tail = on]

(***************************************************************************)
(* ajsono_scan, ajsono_scanr                                               *)
(***************************************************************************)
ScanNode(s, k) == FirstWithKey(s, ListFwd(s), k)
ScanrNode(s, k) == FirstWithKey(s, ListBwd(s), k)

ValueOf(s, n) == IF n = NULL THEN NULL ELSE s.value[n]

ajsono_scan(s, k) == ValueOf(s, ScanNode(s, k))

\* a scan-reverse that walks from the head
ajsono_scanr_from_head(s, k) == ValueOf(s, ScanNode(s, k))

ajsono_scanr(s, k) == ValueOf(s, ScanrNode(s, k))

(***************************************************************************)
(* __ajson_sort: the orders macro_sort may leave the array in (the sort    *)
(* is not known to be stable, so entries with equal keys may come out in    *)
(* either order).                                                          *)
(***************************************************************************)
RECURSIVE PermsOf(_)
PermsOf(S) ==
  IF S = {} THEN {<<>>}
  ELSE UNION {{<<x>> \o q : q \in PermsOf(S \ {x})} : x \in S}

RECURSIVE SortFrom(_, _, _)
SortFrom(s, S, ks) ==
  IF ks = {} THEN {<<>>}
  ELSE LET k == CHOOSE x \in ks : \A y \in ks : x <= y
       IN {a \o b : a \in PermsOf({e \in S : s.key[e] = k}),
                    b \in SortFrom(s, S, ks \ {k})}

ajson_sort(s, base) == SortFrom(s, Range(base), Keys)

(***************************************************************************)
(* _ajsono_fill: srt is the order the sort produced.                       *)
(***************************************************************************)
_ajsono_fill(s, srt) ==
  LET base == ListFwd(s)
  IN IF Len(base) # 0
       THEN [s EXCEPT !.root = "ARRAY", !.sorted = srt, !.tree = {},
                      !.num_sorted_entries = Len(base)]
       ELSE [s EXCEPT !.root = "NULL", !.sorted = <<>>, !.tree = {},
                      !.num_sorted_entries = 0]

\* the array a caller sees when it reads root as ajsono_t **
RootAsArray(s) == IF s.root = "ARRAY" THEN s.sorted ELSE <<>>
\* the tree a caller sees when it reads root as macro_map_t *
RootAsTree(s) == IF s.root = "TREE" THEN s.tree ELSE {}

\* __ajson_search: macro_bsearch_first_kv over the first n slots
ajson_search(s, k, n) ==
  LET arr == RootAsArray(s)
      m == IF n <= Len(arr) THEN n ELSE Len(arr)
  IN FirstWithKey(s, SubSeq(arr, 1, m), k)

\* the guard as it was before it looked at num_sorted_entries
GetNeedsFill_root_only(s) == s.root = "NULL"

\* the guard of ajsono_get
GetNeedsFill(s) == s.root = "NULL" \/ s.num_sorted_entries = 0

\* the guard of ajsono_get_node
GetNodeNeedsFill(s) == s.root = "NULL"

(***************************************************************************)
(* ajsono_get, ajsono_get_node: [st, ret]                                  *)
(***************************************************************************)
ajsono_get(s, k, srt) ==
  IF GetNeedsFill(s) /\ s.head = NULL THEN [st |-> s, ret |-> NULL]
  ELSE LET s1 == IF GetNeedsFill(s) THEN _ajsono_fill(s, srt) ELSE s
       IN [st |-> s1,
           ret |-> ValueOf(s1, ajson_search(s1, k, s1.num_sorted_entries))]

ajsono_get_node(s, k, srt) ==
  IF GetNodeNeedsFill(s) /\ s.head = NULL THEN [st |-> s, ret |-> NULL]
  ELSE LET s1 == IF GetNodeNeedsFill(s) THEN _ajsono_fill(s, srt) ELSE s
       IN [st |-> s1, ret |-> ajson_search(s1, k, s1.num_sorted_entries)]

(***************************************************************************)
(* __ajson_insert (macro_map_insert): a map, so an entry whose key is      *)
(* already in the tree is not linked.                                      *)
(***************************************************************************)
ajson_insert(s, n) ==
  LET t == RootAsTree(s)
  IN IF \E m \in t : s.key[m] = s.key[n]
       THEN s
       ELSE [s EXCEPT !.root = "TREE", !.tree = t \cup {n}, !.sorted = <<>>]

\* __ajson_find (macro_map_find_kv)
ajson_find(s, k) ==
  LET hits == {m \in RootAsTree(s) : s.key[m] = k}
  IN IF hits = {} THEN NULL ELSE CHOOSE m \in hits : TRUE

(***************************************************************************)
(* _ajsono_fill_tree                                                       *)
(***************************************************************************)
RECURSIVE InsertAll(_, _)
InsertAll(s, seq) ==
  IF seq = <<>> THEN s
  ELSE InsertAll(ajson_insert(s, Head(seq)), Tail(seq))

\* a tree build that leaves num_sorted_entries as it was
_ajsono_fill_tree_keeps_count(s) ==
  InsertAll([s EXCEPT !.root = "NULL", !.sorted = <<>>, !.tree = {}],
            ListFwd(s))

_ajsono_fill_tree(s) ==
  InsertAll([s EXCEPT !.root = "NULL", !.num_sorted_entries = 0,
                      !.sorted = <<>>, !.tree = {}],
            ListFwd(s))

\* the guard of ajsono_find_node
FindNeedsFill(s) == s.root = "NULL" \/ s.num_sorted_entries # 0

(***************************************************************************)
(* ajsono_find_node, ajsono_find: [st, ret]                                *)
(***************************************************************************)
ajsono_find_node(s, k) ==
  IF FindNeedsFill(s) /\ s.head = NULL THEN [st |-> s, ret |-> NULL]
  ELSE LET s1 == IF FindNeedsFill(s) THEN _ajsono_fill_tree(s) ELSE s
       IN [st |-> s1, ret |-> ajson_find(s1, k)]

ajsono_find(s, k) ==
  LET r == ajsono_find_node(s, k)
  IN [st |-> r.st, ret |-> ValueOf(r.st, r.ret)]

(***************************************************************************)
(* macro_map_erase.  Erasing an entry that is linked in the tree unlinks   *)
(* it.  Erasing an entry that is not linked (one appended after the tree   *)
(* was built, or one __ajson_insert refused) is undefined: the entry's     *)
(* map hook holds zeroes or the links of an older tree, and the erase      *)
(* rewires whatever those links name.  `kept` is what is still reachable   *)
(* from root afterwards, any subset of the tree.                           *)
(***************************************************************************)
macro_map_erase(s, n, kept) ==
  LET t == IF n \in s.tree THEN s.tree \ {n} ELSE kept
  IN [s EXCEPT !.tree = t, !.root = IF t = {} THEN "NULL" ELSE "TREE"]

\* an erase that leaves both indexes as they are
EraseIndex_keeps_index(s, n, kept) == s

\* the index branch of ajsono_erase
EraseIndex(s, n, kept) ==
  IF s.root # "NULL"
    THEN IF s.num_sorted_entries # 0
           THEN [s EXCEPT !.root = "NULL", !.num_sorted_entries = 0,
                          !.sorted = <<>>, !.tree = {}]
           ELSE macro_map_erase(s, n, kept)
    ELSE s

\* an unlink that forgets to move the tail back
EraseUnlink_keeps_tail(s, n) ==
  LET pv == s.previous[n]
      nx == s.next[n]
  IN IF pv # NULL
       THEN IF nx # NULL
              THEN [s EXCEPT !.next[pv] = nx, !.previous[nx] = pv]
              ELSE [s EXCEPT !.next[pv] = nx]
       ELSE IF nx # NULL
              THEN [s EXCEPT !.head = nx, !.previous[nx] = NULL]
              ELSE [s EXCEPT !.head = NULL, !.tail = NULL]

\* the list branch of ajsono_erase
EraseUnlink(s, n) ==
  LET pv == s.previous[n]
      nx == s.next[n]
  IN IF pv # NULL
       THEN IF nx # NULL
              THEN [s EXCEPT !.next[pv] = nx, !.previous[nx] = pv]
              ELSE [s EXCEPT !.next[pv] = nx, !.tail = pv]
       ELSE IF nx # NULL
              THEN [s EXCEPT !.head = nx, !.previous[nx] = NULL]
              ELSE [s EXCEPT !.head = NULL, !.tail = NULL]

(***************************************************************************)
(* ajsono_erase.  The erased entry stays in the pool with its fields as    *)
(* they were, but nothing reachable from the object names it any more and  *)
(* no call below is handed it again: the model holds the entries the       *)
(* object can reach, and lets go of the erased one.                        *)
(***************************************************************************)
ajsono_erase(s, n, kept) ==
  LET z == EraseUnlink(EraseIndex([s EXCEPT !.num_entries = @ - 1], n, kept), n)
  IN [z EXCEPT !.key[n] = NULL, !.value[n] = NULL,
               !.next[n] = NULL, !.previous[n] = NULL]

(***************************************************************************)
(* ajsono_remove: [st, ret]                                                *)
(***************************************************************************)
ajsono_remove(s, k, kept) ==
  LET n == ScanNode(s, k)
  IN IF n # NULL
       THEN [st |-> ajsono_erase(s, n, kept), ret |-> 1]
       ELSE [st |-> s, ret |-> 0]

\* index maintenance that keeps the tree up to date but never drops the snapshot
SetIndex_keeps_snapshot(s) ==
  IF s.root # "NULL" /\ s.num_sorted_entries = 0
    THEN ajson_insert(s, s.tail)
    ELSE s

\* index maintenance that drops the snapshot but never touches the tree
SetIndex_skips_tree(s) ==
  IF s.root # "NULL" /\ s.num_sorted_entries # 0
    THEN [s EXCEPT !.root = "NULL", !.num_sorted_entries = 0,
                   !.sorted = <<>>, !.tree = {}]
    ELSE s

\* the "maintain lookup structures" branch of ajsono_set, after the append
SetIndex(s) ==
  IF s.root # "NULL"
    THEN IF s.num_sorted_entries # 0
           THEN [s EXCEPT !.root = "NULL", !.num_sorted_entries = 0,
                          !.sorted = <<>>, !.tree = {}]
           ELSE ajson_insert(s, s.tail)
    ELSE s

\* a set that replaces the last entry with the key instead of the first
ajsono_set_last_match(s, k, item) ==
  LET n == ScanrNode(s, k)
  IN IF n # NULL
       THEN [st |-> [s EXCEPT !.value[n] = item, !.parent[item] = "j"],
             ret |-> n]
       ELSE LET s1 == SetIndex(ajsono_append(s, k, item))
            IN [st |-> s1, ret |-> s1.tail]

(***************************************************************************)
(* ajsono_set: [st, ret]                                                   *)
(***************************************************************************)
ajsono_set(s, k, item) ==
  LET n == ScanNode(s, k)
  IN IF n # NULL
       THEN [st |-> [s EXCEPT !.value[n] = item, !.parent[item] = "j"],
             ret |-> n]
       ELSE LET s1 == SetIndex(ajsono_append(s, k, item))
            IN [st |-> s1, ret |-> s1.tail]

\* an insert that adds the entry to the list and not to the tree
ajsono_insert_list_only(s, k, item) ==
  LET f == ajsono_find_node(s, k)
  IN IF f.ret # NULL
       THEN [st |-> [f.st EXCEPT !.parent[item] = "j", !.value[f.ret] = item],
             ret |-> f.ret]
       ELSE [st |-> ajsono_append(f.st, k, item), ret |-> NULL]

(***************************************************************************)
(* ajsono_insert: [st, ret]                                                *)
(***************************************************************************)
ajsono_insert(s, k, item) ==
  LET f == ajsono_find_node(s, k)
  IN IF f.ret # NULL
       THEN [st |-> [f.st EXCEPT !.parent[item] = "j", !.value[f.ret] = item],
             ret |-> f.ret]
       ELSE LET s1 == ajsono_append(f.st, k, item)
            IN [st |-> ajson_insert(s1, s1.tail), ret |-> NULL]

(***************************************************************************)
(* The calls a client can make on the object.  Allocation is capped at     *)
(* MaxEntries entries.                                                     *)
(***************************************************************************)
CanAlloc(s) == s.nalloc < MaxEntries

\* the orders the sort can produce, when the call sorts at all
SortChoices(s, fills) ==
  IF fills /\ s.head # NULL THEN ajson_sort(s, ListFwd(s)) ELSE {<<>>}

\* what an undefined macro_map_erase can leave of the tree, when the call
\* reaches it with an entry that is not linked in the tree
KeptChoices(s, k) ==
  LET n == ScanNode(s, k)
  IN IF n # NULL /\ s.root # "NULL" /\ s.num_sorted_entries = 0 /\ n \notin s.tree
       THEN SUBSET s.tree
       ELSE {{}}

(***************************************************************************)
(* The history of the calls made on the object: whether a get or a find    *)
(* has been made, whether an append came after the first of them, whether  *)
(* an append was made while root was set, and whether two linked entries   *)
(* ever had the same key.                                                  *)
(***************************************************************************)
NoCalls == [looked |-> FALSE, late |-> FALSE, stale |-> FALSE, dup |-> FALSE]

Repeats(s) ==
  \E i, j \in DOMAIN ListFwd(s) :
     i # j /\ s.key[ListFwd(s)[i]] = s.key[ListFwd(s)[j]]

Noted(h, s, s1, call) ==
  [looked |-> h.looked \/ call \in {"get", "find"},
   late   |-> h.late \/ (call = "append" /\ h.looked),
   stale  |-> h.stale \/ (call = "append" /\ s.root # "NULL"),
   dup    |-> h.dup \/ Repeats(s1)]

DoAppend(k, item) ==
  /\ CanAlloc(obj)
  /\ obj' = ajsono_append(obj, k, item)
  /\ op' = <<"append", k, obj.root, item>>
  /\ UNCHANGED <<ps, em, cs, ar>>
  /\ ret' = NULL
  /\ hist' = Noted(hist, obj, obj', op'[1])

DoSet(k, item) ==
  /\ ScanNode(obj, k) # NULL \/ CanAlloc(obj)
  /\ LET r == ajsono_set(obj, k, item)
     IN obj' = r.st /\ ret' = r.ret
  /\ op' = <<"set", k, obj.root, item>>
  /\ UNCHANGED <<ps, em, cs, ar>>
  /\ hist' = Noted(hist, obj, obj', op'[1])

DoInsert(k, item) ==
  /\ ajsono_find_node(obj, k).ret # NULL \/ CanAlloc(obj)
  /\ LET r == ajsono_insert(obj, k, item)
     IN obj' = r.st /\ ret' = r.ret
  /\ op' = <<"insert", k, obj.root, item>>
  /\ UNCHANGED <<ps, em, cs, ar>>
  /\ hist' = Noted(hist, obj, obj', op'[1])

DoRemove(k) ==
  /\ \E kept \in KeptChoices(obj, k) :
       LET r == ajsono_remove(obj, k, kept)
       IN obj' = r.st /\ ret' = r.ret
  /\ op' = <<"remove", k, obj.root, NULL>>
  /\ UNCHANGED <<ps, em, cs, ar>>
  /\ hist' = Noted(hist, obj, obj', op'[1])

DoGet(k) ==
  /\ \E srt \in SortChoices(obj, GetNeedsFill(obj)) :
       LET r == ajsono_get(obj, k, srt)
       IN obj' = r.st /\ ret' = r.ret
  /\ op' = <<"get", k, obj.root, NULL>>
  /\ UNCHANGED <<ps, em, cs, ar>>
  /\ hist' = Noted(hist, obj, obj', op'[1])

DoGetNode(k) ==
  /\ \E srt \in SortChoices(obj, GetNodeNeedsFill(obj)) :
       LET r == ajsono_get_node(obj, k, srt)
       IN obj' = r.st /\ ret' = r.ret
  /\ op' = <<"get_node", k, obj.root, NULL>>
  /\ UNCHANGED <<ps, em, cs, ar>>
  /\ hist' = Noted(hist, obj, obj', op'[1])

DoFind(k) ==
  /\ LET r == ajsono_find(obj, k)
     IN obj' = r.st /\ ret' = r.ret
  /\ op' = <<"find", k, obj.root, NULL>>
  /\ UNCHANGED <<ps, em, cs, ar>>
  /\ hist' = Noted(hist, obj, obj', op'[1])

DoScan(k) ==
  /\ ret' = ajsono_scan(obj, k)
  /\ op' = <<"scan", k, obj.root, NULL>>
  /\ UNCHANGED <<obj, ps, em, cs, ar>>
  /\ hist' = Noted(hist, obj, obj', op'[1])

DoScanr(k) ==
  /\ ret' = ajsono_scanr(obj, k)
  /\ op' = <<"scanr", k, obj.root, NULL>>
  /\ UNCHANGED <<obj, ps, em, cs, ar>>
  /\ hist' = Noted(hist, obj, obj', op'[1])

ObjInit ==
  /\ obj = ajsono
  /\ op = <<"ajsono", NULL, "NULL", NULL>>
  /\ ret = NULL
  /\ hist = NoCalls
  /\ ps = ParseIdle
  /\ em = EmitIdle
  /\ cs = CodecIdle
  /\ ar = ArrayIdle

ObjNext ==
  \/ \E k \in Keys, item \in Vals : DoAppend(k, item)
  \/ \E k \in Keys, item \in Vals : DoSet(k, item)
  \/ \E k \in Keys, item \in Vals : DoInsert(k, item)
  \/ \E k \in Keys : DoRemove(k)
  \/ \E k \in Keys : DoGet(k)
  \/ \E k \in Keys : DoGetNode(k)
  \/ \E k \in Keys : DoFind(k)
  \/ \E k \in Keys : DoScan(k)
  \/ \E k \in Keys : DoScanr(k)

SpecObj == ObjInit /\ [][ObjNext]_vars

(***************************************************************************)
(* Vocabulary of the claims about the object.                              *)
(***************************************************************************)
Reverse(seq) == [i \in 1..Len(seq) |-> seq[Len(seq) + 1 - i]]

\* the entries linked in the list
Linked(s) == Range(ListFwd(s))
\* the linked entries whose key is k
WithKey(s, k) == {e \in Linked(s) : s.key[e] = k}
\* at most one entry per key
UniqueKeys(s) == \A k \in Keys : Cardinality(WithKey(s, k)) <= 1
\* entries are numbered as they are allocated: the smaller was added first
Earliest(S) == CHOOSE e \in S : \A f \in S : e <= f
Latest(S) == CHOOSE e \in S : \A f \in S : e >= f
\* linked entries the snapshot does not hold: appended after it was built
Late(s) == Linked(s) \ Range(s.sorted)

SnapshotActive(s) == s.num_sorted_entries # 0
TreeActive(s) == s.root = "TREE"

(***************************************************************************)
(* C1.  In every reachable state at most one of the two lookup indexes is  *)
(* active: root never holds a tree while the snapshot length is non-zero;  *)
(* a get leaves no tree behind, and a find leaves no snapshot behind.      *)
(***************************************************************************)
C1_AtMostOneIndex ==
  /\ ~(TreeActive(obj) /\ SnapshotActive(obj))
  /\ (obj.root = "ARRAY") = SnapshotActive(obj)
  /\ (op[1] = "get" => ~TreeActive(obj))
  /\ (op[1] = "find" => ~SnapshotActive(obj) /\ obj.root # "ARRAY")

\* a find has just replaced an active snapshot by a tree
C1_Witness ==
  /\ op[1] = "find" /\ op[3] = "ARRAY"
  /\ TreeActive(obj) /\ Cardinality(obj.tree) >= 2

(***************************************************************************)
(* C2.  A get made while the tree is active (a find built it) returns the  *)
(* value of an entry with the key asked for when the object has one, and   *)
(* null when it has none.                                                  *)
(***************************************************************************)
C2_GetAfterFind ==
  (op[1] = "get" /\ op[3] = "TREE") =>
     IF WithKey(obj, op[2]) = {} THEN ret = NULL
     ELSE \E e \in WithKey(obj, op[2]) : ret = obj.value[e]

\* the get found a key after a find had built the tree
C2_Witness ==
  /\ op[1] = "get" /\ op[3] = "TREE"
  /\ ret # NULL
  /\ \E k \in Keys : WithKey(obj, k) = {}

(***************************************************************************)
(* C3, as stated.  With the snapshot active, a get that directly follows   *)
(* a plain append of the same key returns null.                            *)
(***************************************************************************)
C3_AppendedKeyGetsNull ==
  [][(op[1] = "append" /\ SnapshotActive(obj)
        /\ op'[1] = "get" /\ op'[2] = op[2]) => ret' = NULL]_objvars

(***************************************************************************)
(* C3, amended.  A plain append leaves an active snapshot active and as    *)
(* it was, and while the snapshot is active a get is answered from the     *)
(* entries the snapshot holds: it returns null when none of them has the   *)
(* key (so an entry appended since is invisible) and the value of one of   *)
(* them otherwise, never looking at the appended entries.                  *)
(***************************************************************************)
C3_AppendInvisible ==
  [][/\ (op'[1] = "append" /\ SnapshotActive(obj)) =>
          /\ obj'.root = "ARRAY"
          /\ obj'.sorted = obj.sorted
          /\ obj'.num_sorted_entries = obj.num_sorted_entries
     /\ (op'[1] = "get" /\ SnapshotActive(obj)) =>
          LET old == {e \in Range(obj.sorted) : obj.key[e] = op'[2]}
          IN /\ obj'.sorted = obj.sorted
             /\ IF old = {} THEN ret' = NULL
                ELSE \E e \in old : ret' = obj.value[e]]_objvars

\* get returned null for a key that an appended entry holds
C3_Witness ==
  /\ op[1] = "get" /\ op[3] = "ARRAY" /\ ret = NULL
  /\ \E e \in Late(obj) : obj.key[e] = op[2]

(***************************************************************************)
(* C4, as stated.  Every set or remove made while the snapshot is active   *)
(* leaves the object without a snapshot.                                   *)
(***************************************************************************)
C4_SetRemoveAlwaysDrop ==
  (op[1] \in {"set", "remove"} /\ op[3] = "ARRAY") => obj.root # "ARRAY"

\* the snapshot the next get builds: every linked entry once, sorted by key
RebuiltOver(s, t) ==
  /\ t.root = "ARRAY"
  /\ Len(t.sorted) = Cardinality(Linked(s))
  /\ Range(t.sorted) = Linked(s)
  /\ t.num_sorted_entries = Len(t.sorted)
  /\ \A i \in 1..Len(t.sorted) - 1 :
        s.key[t.sorted[i]] <= s.key[t.sorted[i + 1]]

(***************************************************************************)
(* C4, amended.  With the snapshot active, a set that adds an entry (its   *)
(* key is absent) and a remove that removes one (its key is present) drop  *)
(* the snapshot; a set on a present key and a remove on an absent key      *)
(* leave it as it is.  A get on an object without an index builds the      *)
(* snapshot over all linked entries, appended ones included, and answers   *)
(* from it.                                                                *)
(***************************************************************************)
C4_MutatorsDropSnapshot ==
  [][/\ (SnapshotActive(obj) /\ op'[1] \in {"set", "remove"}) =>
          IF (op'[1] = "set") = (WithKey(obj, op'[2]) = {})
            THEN obj'.root = "NULL" /\ ~SnapshotActive(obj')
            ELSE /\ obj'.root = "ARRAY"
                 /\ obj'.sorted = obj.sorted
                 /\ obj'.num_sorted_entries = obj.num_sorted_entries
     /\ (obj.root = "NULL" /\ obj.head # NULL /\ op'[1] = "get") =>
          /\ RebuiltOver(obj, obj')
          /\ IF WithKey(obj, op'[2]) = {} THEN ret' = NULL
             ELSE \E e \in WithKey(obj, op'[2]) : ret' = obj.value[e]
    ]_objvars

\* a set made with the snapshot active added a third entry and dropped it
C4_Witness ==
  /\ op[1] = "set" /\ op[3] = "ARRAY"
  /\ obj.root = "NULL"
  /\ ret = obj.tail /\ Cardinality(Linked(obj)) = 3

(***************************************************************************)
(* C5, as stated.  With at most one entry per key, after a set made while  *)
(* the tree was active, find on the same key returns the value set.        *)
(***************************************************************************)
C5_FindAfterSet ==
  (op[1] = "set" /\ op[3] = "TREE" /\ UniqueKeys(obj)) =>
     ajsono_find(obj, op[2]).ret = op[4]

(***************************************************************************)
(* C5, amended.  With at most one entry per key and the tree active, a set *)
(* on an absent key links the new entry into the tree, so find on that key *)
(* returns the value set; a set on a present key replaces the value and    *)
(* leaves the tree as it was, so find returns the value set exactly when   *)
(* the entry was in the tree already.                                      *)
(***************************************************************************)
C5_SetMaintainsTree ==
  [][(op'[1] = "set" /\ TreeActive(obj) /\ UniqueKeys(obj')) =>
       LET k == op'[2]
           n == ret'
           f == ajsono_find(obj', k).ret
       IN IF WithKey(obj, k) = {}
            THEN n \in obj'.tree /\ f = op'[4]
            ELSE /\ obj'.tree = obj.tree /\ obj'.root = obj.root
                 /\ (f = op'[4]) = (n \in obj.tree)]_objvars

\* a set made with the tree active added an entry and linked it in the tree
C5_Witness ==
  /\ op[1] = "set" /\ op[3] = "TREE"
  /\ ret = obj.tail /\ ret \in obj.tree
  /\ Cardinality(obj.tree) >= 2
  /\ UniqueKeys(obj)

\* first/next visits the surviving entries, earliest added first, and
\* last/previous visits them in the opposite order
InAddedOrder(s) ==
  LET l == ListFwd(s)
  IN /\ \A i, j \in 1..Len(l) : i < j => l[i] < l[j]
     /\ Linked(s) = {e \in 1..s.nalloc : s.key[e] # NULL}
     /\ ListBwd(s) = Reverse(l)

(***************************************************************************)
(* C6.  After every call, iteration visits the surviving entries in the    *)
(* order in which they were added, and a set on a present key leaves the   *)
(* list exactly as it was.                                                 *)
(***************************************************************************)
C6_InsertionOrder ==
  [][/\ InAddedOrder(obj')
     /\ (op'[1] = "set" /\ WithKey(obj, op'[2]) # {}) =>
           ListFwd(obj') = ListFwd(obj) /\ obj'.key = obj.key]_objvars

\* a set replaced a value in a list that has lost an entry and kept two
C6_Witness ==
  /\ op[1] = "set" /\ ret # obj.tail
  /\ Len(ListFwd(obj)) = 2
  /\ obj.nalloc = 3

(***************************************************************************)
(* C7.  set on a present key replaces the value of the first entry with    *)
(* that key and nothing else; set on an absent key adds one entry at the   *)
(* tail and nothing else.                                                  *)
(***************************************************************************)
C7_SetFrame ==
  [][op'[1] = "set" =>
       LET k == op'[2]
           n == ret'
       IN IF WithKey(obj, k) # {}
            THEN /\ n = Earliest(WithKey(obj, k))
                 /\ obj'.value[n] = op'[4]
                 /\ \A e \in Ents \ {n} : obj'.value[e] = obj.value[e]
                 /\ obj'.key = obj.key
                 /\ ListFwd(obj') = ListFwd(obj)
                 /\ ListBwd(obj') = ListBwd(obj)
                 /\ obj'.num_entries = obj.num_entries
            ELSE /\ n \notin Linked(obj)
                 /\ ListFwd(obj') = ListFwd(obj) \o <<n>>
                 /\ ListBwd(obj') = <<n>> \o ListBwd(obj)
                 /\ obj'.key[n] = k /\ obj'.value[n] = op'[4]
                 /\ \A e \in Ents \ {n} :
                       obj'.value[e] = obj.value[e] /\ obj'.key[e] = obj.key[e]
                 /\ obj'.num_entries = obj.num_entries + 1]_objvars

\* a set replaced the first of two entries with the same key, leaving the
\* second with another value
C7_Witness ==
  /\ op[1] = "set"
  /\ Cardinality(WithKey(obj, op[2])) = 2
  /\ ret = Earliest(WithKey(obj, op[2]))
  /\ obj.value[Latest(WithKey(obj, op[2]))] # op[4]

(***************************************************************************)
(* C8.  remove unlinks the first entry with the key: the other entries     *)
(* keep their order in both directions, the count drops by one and the     *)
(* call returns true; with no such entry it returns false and the object   *)
(* is as it was.                                                           *)
(***************************************************************************)
C8_RemoveFirst ==
  [][op'[1] = "remove" =>
       LET k == op'[2]
       IN IF WithKey(obj, k) # {}
            THEN LET n == Earliest(WithKey(obj, k))
                     keep(e) == e # n
                 IN /\ ret' = 1
                    /\ ListFwd(obj') = SelectSeq(ListFwd(obj), keep)
                    /\ ListBwd(obj') = SelectSeq(ListBwd(obj), keep)
                    /\ obj'.num_entries = obj.num_entries - 1
                    /\ \A e \in Linked(obj) \ {n} :
                          obj'.key[e] = obj.key[e] /\ obj'.value[e] = obj.value[e]
            ELSE ret' = 0 /\ obj' = obj]_objvars

\* a remove took the middle one of three entries
C8_Witness ==
  /\ op[1] = "remove" /\ ret = 1
  /\ ListFwd(obj) = <<1, 3>>
  /\ obj.num_entries = 2

(***************************************************************************)
(* C9.  scan returns the value of the earliest added of the linked entries *)
(* with the key and scan-reverse the value of the latest added, null when  *)
(* there is none.                                                          *)
(***************************************************************************)
C9_ScanFirstLast ==
  /\ op[1] = "scan" =>
       ret = IF WithKey(obj, op[2]) = {} THEN NULL
             ELSE obj.value[Earliest(WithKey(obj, op[2]))]
  /\ op[1] = "scanr" =>
       ret = IF WithKey(obj, op[2]) = {} THEN NULL
             ELSE obj.value[Latest(WithKey(obj, op[2]))]

\* scan-reverse returned the later of two entries with the same key, whose
\* values differ
C9_Witness ==
  /\ op[1] = "scanr"
  /\ Cardinality(WithKey(obj, op[2])) >= 2
  /\ ret = obj.value[Latest(WithKey(obj, op[2]))]
  /\ ret # obj.value[Earliest(WithKey(obj, op[2]))]

(***************************************************************************)
(* Part 2.  ajson_parse (src/ajson.c).                                     *)
(*                                                                         *)
(* The buffer is a sequence of bytes, each written as a one-character      *)
(* string; p, ep, key and stringp are indexes into it and sp is 1.  The    *)
(* text is handed over the way ajson_parse_string hands it: copied with    *)
(* its terminating NUL, so the byte at ep is NUL.  Every label of the      *)
(* function is one step; the code between a label and the next goto or     *)
(* return is the body of the step.                                         *)
(***************************************************************************)
AJSON_ERROR == 0
AJSON_OBJECT == 1
AJSON_ARRAY == 2
AJSON_NULL == 4
AJSON_STRING == 5
AJSON_FALSE == 6
AJSON_ZERO == 7
AJSON_NUMBER == 8
AJSON_DECIMAL == 9
AJSON_TRUE == 10

AJSON_SPACE_CASE == {" ", "\t", "\r", "\n"}
AJSON_NATURAL_NUMBER_CASE == {"1", "2", "3", "4", "5", "6", "7", "8", "9"}
Digit == {"0"} \cup AJSON_NATURAL_NUMBER_CASE

\* stringp: <<"p", i>> points at byte i of the buffer, <<"0", 1>> and the
\* like at a string literal of the program
NoString == <<"NULL", 0>>

\* a freshly allocated node
Node(type) ==
  [type |-> type, value |-> NoString, length |-> 0, parent |-> NULL,
   list |-> <<>>]

\* the locals of ajson_parse at its first statement, for the text `text`
ParseStart(text) ==
  [pc |-> "ajson_parse",
   text |-> text,              \* the text as handed over; mem gets NULs written
   mem |-> text \o <<NUL>>,
   ep |-> Len(text) + 1,
   p |-> 1,
   ch |-> NUL,
   key |-> NULL,
   stringp |-> NoString,
   data_type |-> AJSON_ERROR,
   string_length |-> 0,
   after_comma |-> FALSE,
   arr |-> NULL,
   root |-> NULL,
   res |-> NULL,
   heap |-> <<>>,
   error_at |-> NULL,
   result |-> NULL]

Goto(s, label) == [s EXCEPT !.pc = label]

\* return x;
Return(s, x) == [s EXCEPT !.pc = "return", !.result = x]

\* aml_pool_zalloc of one node: the new node is the last of the heap
Alloc(s, n) == [s EXCEPT !.heap = Append(@, n)]

\* ch = *p++ on a cursor [p, ch, ok]
ReadCh(m, c) == [c EXCEPT !.p = @ + 1, !.ch = m[c.p]]

\* while (ch >= '0' && ch <= '9') ch = *p++;
RECURSIVE WhileDigit(_, _)
WhileDigit(m, c) ==
  IF c.ch \in Digit THEN WhileDigit(m, ReadCh(m, c)) ELSE c

\* ch = *p++; if (ch < '0' || ch > '9') bad; while (digit) ch = *p++;
NeedDigits(m, c) ==
  LET c1 == ReadCh(m, c)
  IN IF c1.ch \notin Digit THEN [c1 EXCEPT !.ok = FALSE]
     ELSE WhileDigit(m, c1)

\* an exponent that asks for no digit after the e and the sign
Exponent_without_digits(m, c) ==
  IF c.ok /\ c.ch \in {"e", "E"}
    THEN LET c1 == ReadCh(m, c)
             c2 == IF c1.ch \in {"+", "-"} THEN ReadCh(m, c1) ELSE c1
         IN WhileDigit(m, c2)
    ELSE c

\* if (ch == 'e' || ch == 'E') { sign, then at least one digit }
Exponent(m, c) ==
  IF c.ok /\ c.ch \in {"e", "E"}
    THEN LET c1 == ReadCh(m, c)
             c2 == IF c1.ch \in {"+", "-"} THEN ReadCh(m, c1) ELSE c1
         IN IF c2.ch \notin Digit THEN [c2 EXCEPT !.ok = FALSE]
            ELSE WhileDigit(m, c2)
    ELSE c

\* ch = *p++; if (ch != w[1]) bad; ... for each byte of w
RECURSIVE MatchWord(_, _, _)
MatchWord(m, c, w) ==
  IF w = <<>> THEN c
  ELSE LET c1 == ReadCh(m, c)
       IN IF c1.ch # Head(w) THEN [c1 EXCEPT !.ok = FALSE]
          ELSE MatchWord(m, c1, Tail(w))

Cursor(s) == [p |-> s.p, ch |-> s.ch, ok |-> TRUE]

\* while (p < ep && *p != stop) p++;
RECURSIVE SkipTo(_, _, _, _)
SkipTo(m, p, ep, stop) ==
  IF p < ep /\ m[p] # stop THEN SkipTo(m, p + 1, ep, stop) ELSE p

\* backtrack = p-1; while (*backtrack == '\\') backtrack--;
RECURSIVE Backtrack(_, _)
Backtrack(m, b) == IF m[b] = "\\" THEN Backtrack(m, b - 1) ELSE b

\* a quote taken as escaped whenever the byte before it is a backslash
EscapedQuote_any_backslash(m, p) == m[p - 1] = "\\"

\* the quote at p is escaped: it follows an odd number of backslashes
EscapedQuote(m, p) ==
  m[p - 1] = "\\" /\ (p - Backtrack(m, p - 1)) % 2 = 0

\* the end of a number: p--; *p = 0; data_type = ...; string_length = ...
EndNumber(s, c, type, label) ==
  IF ~c.ok THEN Goto([s EXCEPT !.p = c.p, !.ch = c.ch], "bad_character")
  ELSE Goto([s EXCEPT !.p = c.p - 1, !.ch = c.ch,
                      !.mem[c.p - 1] = NUL,
                      !.data_type = type,
                      !.string_length = c.p - 1 - s.stringp[2]], label)

\* stringp = "true"; data_type = ...; string_length = ...; ch = *p;
EndWord(s, c, word, type, length, label) ==
  IF ~c.ok THEN Goto([s EXCEPT !.p = c.p, !.ch = c.ch], "bad_character")
  ELSE Goto([s EXCEPT !.p = c.p, !.ch = s.mem[c.p],
                      !.stringp = <<word, 1>>,
                      !.data_type = type,
                      !.string_length = length], label)

\* ajsono_append((ajson_t *)root, key, item, false) on the parser's heap:
\* the entry <<key, item>> goes to the tail and item->parent = root
ParseAppend(s, key, item) ==
  [s EXCEPT !.heap[s.root].list = Append(@, <<key, item>>),
            !.heap[item].parent = s.root]

\* the array branch of start_value and add_string: link anode at the tail of arr
ArrayLink(s, item) ==
  IF s.arr # NULL
    THEN [s EXCEPT !.heap[s.arr].list = Append(@, <<NULL, item>>)]
    ELSE s

\* a close that takes the document only if the text ends with it
CloseContainer_to_the_end(s, parent, q) ==
  IF parent = NULL
    THEN IF s.mem[q] = NUL THEN Return([s EXCEPT !.root = NULL], s.res)
         ELSE Goto(s, "bad_character")
  ELSE LET s1 == [s EXCEPT !.root = parent, !.p = q, !.ch = s.mem[q]]
       IN IF s.heap[parent].type = AJSON_OBJECT
            THEN Goto(s1, "look_for_key")
            ELSE Goto([s1 EXCEPT !.arr = parent], "look_for_next_object")

\* root = parent; if (!root) return res; else go on in the parent container
CloseContainer(s, parent, q) ==
  IF parent = NULL THEN Return([s EXCEPT !.root = NULL], s.res)
  ELSE LET s1 == [s EXCEPT !.root = parent, !.p = q, !.ch = s.mem[q]]
       IN IF s.heap[parent].type = AJSON_OBJECT
            THEN Goto(s1, "look_for_key")
            ELSE Goto([s1 EXCEPT !.arr = parent], "look_for_next_object")

Bad(s) == Goto(s, "bad_character")

\* ch = *p++;
Fetch(s) == [s EXCEPT !.ch = s.mem[s.p], !.p = @ + 1]

\* case '-' of start_key_object and of start_value
MinusCase(s1, dec, nxt, add) ==
  LET s2 == [s1 EXCEPT !.stringp = <<"p", s1.p - 1>>,
                       !.ch = s1.mem[s1.p], !.p = @ + 1]
      la == s2.mem[s2.p]
  IN IF s2.ch = "0"
       THEN IF la = "." THEN Goto([s2 EXCEPT !.p = @ + 1], dec)
            ELSE IF la \in {"e", "E"} THEN Goto(s2, nxt)
            ELSE IF la \in Digit THEN Bad(s2)
            ELSE Goto([s2 EXCEPT !.data_type = AJSON_NUMBER,
                                 !.string_length = s2.p - s2.stringp[2],
                                 !.ch = la,
                                 !.mem[s2.p] = NUL], add)
       ELSE IF s2.ch \in AJSON_NATURAL_NUMBER_CASE THEN Goto(s2, nxt)
       ELSE Bad(s2)

\* case '0' of start_key_object and of start_value
ZeroCase(s1, dec, nxt, add) ==
  LET s2 == [s1 EXCEPT !.stringp = <<"p", s1.p - 1>>]
      more == s2.p < s2.ep
  IN IF more /\ s2.mem[s2.p] = "." THEN Goto([s2 EXCEPT !.p = @ + 1], dec)
     ELSE IF more /\ s2.mem[s2.p] \in {"e", "E"} THEN Goto(s2, nxt)
     ELSE IF more /\ s2.mem[s2.p] \in Digit THEN Bad(s2)
     ELSE Goto([s2 EXCEPT !.stringp = <<"0", 1>>,
                          !.data_type = AJSON_ZERO,
                          !.string_length = 1,
                          !.ch = s2.mem[s2.p]], add)

\* the first statements of ajson_parse
ajson_parse(s) ==
  IF s.p >= s.ep THEN Bad([s EXCEPT !.p = @ + 1])
  ELSE IF s.mem[s.p] # "{" THEN Goto(s, "start_value")
  ELSE LET s1 == Alloc(s, Node(AJSON_OBJECT))
           id == Len(s1.heap)
       IN Goto([s1 EXCEPT !.root = id, !.p = @ + 1, !.res = id], "start_key")

start_key(s) ==
  IF s.p >= s.ep THEN Bad(s)
  ELSE LET s1 == Fetch(s)
       IN IF s1.ch = "\""
            THEN Goto([s1 EXCEPT !.after_comma = FALSE, !.key = s1.p],
                      "get_end_of_key")
          ELSE IF s1.ch \in AJSON_SPACE_CASE THEN Goto(s1, "start_key")
          ELSE IF s1.ch = "}"
            THEN IF s1.after_comma THEN Bad(s1)
                 ELSE CloseContainer(s1, s1.heap[s1.root].parent, s1.p)
          ELSE Bad(s1)

get_end_of_key(s) ==
  LET q == SkipTo(s.mem, s.p, s.ep, "\"")
  IN IF q < s.ep /\ EscapedQuote(s.mem, q)
       THEN Goto([s EXCEPT !.p = q + 1], "get_end_of_key")
       ELSE LET s1 == IF q < s.ep THEN [s EXCEPT !.mem[q] = NUL] ELSE s
                r == SkipTo(s1.mem, q + 1, s1.ep, ":")
            IN Goto([s1 EXCEPT !.p = r + 1], "start_key_object")

start_key_object(s) ==
  IF s.p >= s.ep THEN Bad(s)
  ELSE
    LET s1 == Fetch(s)
        ch == s1.ch
        id == Len(s1.heap) + 1
    IN IF ch = "\""
         THEN Goto([s1 EXCEPT !.stringp = <<"p", s1.p>>,
                              !.data_type = AJSON_STRING],
                   "keyed_start_string")
       ELSE IF ch \in AJSON_SPACE_CASE THEN Goto(s1, "start_key_object")
       ELSE IF ch = "{"
         THEN Goto([ParseAppend(Alloc(s1, Node(AJSON_OBJECT)), s1.key, id)
                      EXCEPT !.root = id], "start_key")
       ELSE IF ch = "["
         THEN Goto([ParseAppend(Alloc(s1, Node(AJSON_ARRAY)), s1.key, id)
                      EXCEPT !.arr = id, !.root = id], "start_value")
       ELSE IF ch = "-"
         THEN MinusCase(s1, "keyed_decimal_number", "keyed_next_digit",
                        "keyed_add_string")
       ELSE IF ch = "0"
         THEN ZeroCase(s1, "keyed_decimal_number", "keyed_next_digit",
                       "keyed_add_string")
       ELSE IF ch \in AJSON_NATURAL_NUMBER_CASE
         THEN Goto([s1 EXCEPT !.stringp = <<"p", s1.p - 1>>],
                   "keyed_next_digit")
       ELSE IF ch = "t"
         THEN IF s1.p + 3 >= s1.ep THEN Bad(s1)
              ELSE EndWord(s1, MatchWord(s1.mem, Cursor(s1), <<"r", "u", "e">>),
                           "true", AJSON_TRUE, 4, "keyed_add_string")
       ELSE IF ch = "f"
         THEN IF s1.p + 4 >= s1.ep THEN Bad(s1)
              ELSE EndWord(s1, MatchWord(s1.mem, Cursor(s1),
                                         <<"a", "l", "s", "e">>),
                           "false", AJSON_FALSE, 5, "keyed_add_string")
       ELSE IF ch = "n"
         THEN EndWord(s1, MatchWord(s1.mem, Cursor(s1), <<"u", "l", "l">>),
                      "null", AJSON_NULL, 4, "keyed_add_string")
       ELSE Bad(s1)

\* keyed_start_string and start_string: the same code, going on to `add`
ScanString(s, self, add) ==
  LET q == SkipTo(s.mem, s.p, s.ep, "\"")
  IN IF q >= s.ep THEN Bad([s EXCEPT !.p = q])
     ELSE IF EscapedQuote(s.mem, q) THEN Goto([s EXCEPT !.p = q + 1], self)
     ELSE Goto([s EXCEPT !.mem[q] = NUL,
                         !.string_length = q - s.stringp[2],
                         !.p = q + 1,
                         !.ch = s.mem[q + 1]], add)

keyed_start_string(s) == ScanString(s, "keyed_start_string", "keyed_add_string")

\* j = aml_pool_alloc(...); j->type = data_type; j->value = stringp; ...
Scalar(s) ==
  [Node(s.data_type) EXCEPT !.value = s.stringp, !.length = s.string_length]

keyed_add_string(s) ==
  LET s1 == Alloc(s, Scalar(s))
  IN Goto(ParseAppend(s1, s.key, Len(s1.heap)), "look_for_key")

look_for_key(s) ==
  IF s.ch = ","
    THEN IF s.p >= s.ep THEN Bad(s)
         ELSE Goto([s EXCEPT !.p = @ + 1, !.after_comma = TRUE], "start_key")
  ELSE IF s.ch = "}"
    THEN IF s.after_comma THEN Bad(s)
         ELSE CloseContainer(s, s.heap[s.root].parent, s.p + 1)
  ELSE IF s.ch \in AJSON_SPACE_CASE
    THEN Goto([s EXCEPT !.p = @ + 1, !.ch = s.mem[s.p + 1]], "look_for_key")
  ELSE Bad(s)

keyed_next_digit(s) ==
  LET c0 == WhileDigit(s.mem, ReadCh(s.mem, Cursor(s)))
  IN IF c0.ch = "."
       THEN Goto([s EXCEPT !.p = c0.p, !.ch = c0.ch], "keyed_decimal_number")
       ELSE EndNumber(s, Exponent(s.mem, c0), AJSON_NUMBER, "keyed_add_string")

keyed_decimal_number(s) ==
  EndNumber(s, Exponent(s.mem, NeedDigits(s.mem, Cursor(s))), AJSON_DECIMAL,
            "keyed_add_string")

\* opening a container without clearing the comma flag
OpenInArray_keeps_flag(s1, type) ==
  LET s2 == Alloc(s1, [Node(type) EXCEPT !.parent = s1.arr])
      id == Len(s2.heap)
      s3 == ArrayLink(s2, id)
  IN [s3 EXCEPT !.res = IF s1.arr = NULL THEN id ELSE @,
                !.root = id]

\* case '{' and case '[' of start_value: the new container is an element of
\* arr, or the result when there is no array
OpenInArray(s1, type) ==
  LET s2 == Alloc(s1, [Node(type) EXCEPT !.parent = s1.arr])
      id == Len(s2.heap)
      s3 == ArrayLink(s2, id)
  IN [s3 EXCEPT !.after_comma = FALSE,
                !.res = IF s1.arr = NULL THEN id ELSE @,
                !.root = id]

start_value(s) ==
  IF s.p >= s.ep THEN Bad(s)
  ELSE
    LET s1 == Fetch(s)
        ch == s1.ch
        s2 == [s1 EXCEPT !.after_comma = FALSE]
    IN IF ch = "\""
         THEN Goto([s2 EXCEPT !.stringp = <<"p", s1.p>>,
                              !.data_type = AJSON_STRING], "start_string")
       ELSE IF ch \in AJSON_SPACE_CASE THEN Goto(s1, "start_value")
       ELSE IF ch = "{" THEN Goto(OpenInArray(s1, AJSON_OBJECT), "start_key")
       ELSE IF ch = "["
         THEN LET s3 == OpenInArray(s1, AJSON_ARRAY)
              IN Goto([s3 EXCEPT !.arr = s3.root], "start_value")
       ELSE IF ch = "]"
         THEN IF s1.after_comma THEN Bad(s1)
              ELSE IF s1.arr = NULL THEN Goto(s1, "arr->parent")
              ELSE CloseContainer(s1, s1.heap[s1.arr].parent, s1.p)
       ELSE IF ch = "-"
         THEN MinusCase(s2, "decimal_number", "next_digit", "add_string")
       ELSE IF ch = "0"
         THEN ZeroCase(s2, "decimal_number", "next_digit", "add_string")
       ELSE IF ch \in AJSON_NATURAL_NUMBER_CASE
         THEN Goto([s2 EXCEPT !.stringp = <<"p", s1.p - 1>>], "next_digit")
       ELSE IF ch = "t"
         THEN EndWord(s2, MatchWord(s2.mem, Cursor(s2), <<"r", "u", "e">>),
                      "true", AJSON_TRUE, 4, "add_string")
       ELSE IF ch = "f"
         THEN EndWord(s2, MatchWord(s2.mem, Cursor(s2), <<"a", "l", "s", "e">>),
                      "false", AJSON_FALSE, 5, "add_string")
       ELSE IF ch = "n"
         THEN EndWord(s2, MatchWord(s2.mem, Cursor(s2), <<"u", "l", "l">>),
                      "null", AJSON_NULL, 4, "add_string")
       ELSE Bad(s1)

\* What a build can do with the read of arr->parent through a null arr
\* (a `]` where no array is open): fault, or read a null parent and return.
NullArrayOutcomes(s) ==
  IF s.pc = "arr->parent"
    THEN {Goto(s, "fault"), Return(s, s.res)}
    ELSE {s}

start_string(s) == ScanString(s, "start_string", "add_string")

add_string(s) ==
  LET s1 == Alloc(s, [Scalar(s) EXCEPT !.parent = s.arr])
      j == Len(s1.heap)
  IN IF s.arr = NULL THEN Return(s1, j)
     ELSE Goto(ArrayLink(s1, j), "look_for_next_object")

look_for_next_object(s) ==
  IF s.ch = ","
    THEN IF s.p >= s.ep THEN Bad(s)
         ELSE Goto([s EXCEPT !.p = @ + 1, !.after_comma = TRUE], "start_value")
  ELSE IF s.ch = "]"
    THEN IF s.after_comma THEN Bad(s)
         ELSE CloseContainer(s, s.heap[s.arr].parent, s.p + 1)
  ELSE IF s.ch \in AJSON_SPACE_CASE
    THEN Goto([s EXCEPT !.p = @ + 1, !.ch = s.mem[s.p + 1]],
              "look_for_next_object")
  ELSE Bad(s)

next_digit(s) ==
  LET c0 == WhileDigit(s.mem, ReadCh(s.mem, Cursor(s)))
      c1 == IF c0.ch = "." THEN NeedDigits(s.mem, c0) ELSE c0
  IN EndNumber(s, Exponent(s.mem, c1), AJSON_NUMBER, "add_string")

decimal_number(s) ==
  EndNumber(s, Exponent(s.mem, NeedDigits(s.mem, Cursor(s))), AJSON_DECIMAL,
            "add_string")

\* err->type = AJSON_ERROR; err->error_at = p; err->source = sp; return err
bad_character(s) ==
  LET s1 == Alloc(s, Node(AJSON_ERROR))
  IN Return([s1 EXCEPT !.error_at = s.p], Len(s1.heap))

(***************************************************************************)
(* The emitters.  They write bytes; a byte is its value, 0..255.  The      *)
(* texts of the parser are written with the characters of ByteTable, a     *)
(* byte of a multi-byte UTF-8 sequence being named by its value in hex.    *)
(***************************************************************************)
ByteTable ==
  { <<NUL, 0>>, <<"\t", 9>>, <<"\n", 10>>, <<"\r", 13>>, <<" ", 32>>,
    <<"\"", 34>>, <<"+", 43>>, <<",", 44>>, <<"-", 45>>, <<".", 46>>,
    <<"0", 48>>, <<"1", 49>>, <<":", 58>>, <<"[", 91>>, <<"\\", 92>>,
    <<"]", 93>>, <<"a", 97>>, <<"e", 101>>, <<"f", 102>>, <<"k", 107>>,
    <<"l", 108>>, <<"n", 110>>, <<"r", 114>>, <<"s", 115>>, <<"t", 116>>,
    <<"u", 117>>, <<"{", 123>>, <<"}", 125>>,
    <<"xA9", 169>>, <<"xC0", 192>>, <<"xC3", 195>> }

ByteOf(c) == (CHOOSE e \in ByteTable : e[1] = c)[2]
CharOf(b) == (CHOOSE e \in ByteTable : e[2] = b)[1]

Bytes(text) == [i \in 1..Len(text) |-> ByteOf(text[i])]
Chars(bytes) == [i \in 1..Len(bytes) |-> CharOf(bytes[i])]

\* (c & 0xC0) == 0x80
IsContinuation(c) == c \div 64 = 2

\* a filter that copies every byte
RECURSIVE CopyFrom_everything(_, _)
CopyFrom_everything(src, i) ==
  IF i > Len(src) THEN <<>> ELSE <<src[i]>> \o CopyFrom_everything(src, i + 1)

\* the loop of ajson_copy_valid_utf8 from index i (indices from 1)
RECURSIVE CopyFrom(_, _)
CopyFrom(src, i) ==
  IF i > Len(src) THEN <<>>
  ELSE LET c == src[i]
           len == Len(src)
       IN IF c < 128 THEN <<c>> \o CopyFrom(src, i + 1)
          ELSE IF c \div 32 = 6 /\ i + 1 <= len
            THEN IF IsContinuation(src[i + 1])
                   THEN <<c, src[i + 1]>> \o CopyFrom(src, i + 2)
                   ELSE CopyFrom(src, i + 1)
          ELSE IF c \div 16 = 14 /\ i + 2 <= len
            THEN IF IsContinuation(src[i + 1]) /\ IsContinuation(src[i + 2])
                   THEN <<c, src[i + 1], src[i + 2]>> \o CopyFrom(src, i + 3)
                   ELSE CopyFrom(src, i + 1)
          ELSE IF c \div 8 = 30 /\ i + 3 <= len
            THEN IF /\ IsContinuation(src[i + 1])
                    /\ IsContinuation(src[i + 2])
                    /\ IsContinuation(src[i + 3])
                   THEN <<c, src[i + 1], src[i + 2], src[i + 3]>>
                          \o CopyFrom(src, i + 4)
                   ELSE CopyFrom(src, i + 1)
          ELSE CopyFrom(src, i + 1)

\* what ajson_copy_valid_utf8 writes at dest for the len bytes of src
ajson_copy_valid_utf8(src) == CopyFrom(src, 1)

\* the zero-terminated key at offset k and the bytes of a scalar, as bytes
KeyOf(s, k) == Bytes(SubSeq(s.mem, k, SkipTo(s.mem, k, s.ep, NUL) - 1))

ValueBytes(s, a) ==
  LET v == s.heap[a].value
      len == s.heap[a].length
  IN IF v[1] = "p" THEN Bytes(SubSeq(s.mem, v[2], v[2] + len - 1))
     ELSE IF v[1] = "0" THEN Bytes(<<"0">>)
     ELSE IF v[1] = "true" THEN Bytes(<<"t", "r", "u", "e">>)
     ELSE IF v[1] = "false" THEN Bytes(<<"f", "a", "l", "s", "e">>)
     ELSE Bytes(<<"n", "u", "l", "l">>)

ScalarTypes ==
  {AJSON_NULL, AJSON_TRUE, AJSON_FALSE, AJSON_ZERO, AJSON_NUMBER, AJSON_DECIMAL}

\* n = o->head
First(list) == IF list = <<>> THEN 0 ELSE 1

\* next = n->next; while (next && next->value == NULL) next = next->next;
NextValued(list, n) ==
  LET later == {j \in n + 1..Len(list) : list[j][2] # NULL}
  IN IF later = {} THEN 0 ELSE CHOOSE j \in later : \A k \in later : j <= k

\* a compact writer that puts no comma between entries
RECURSIVE _ajson_dump_to_memory_no_comma(_, _)
RECURSIVE DumpEntries_no_comma(_, _, _, _)
DumpEntries_no_comma(s, list, n, keyed) ==
  IF n = 0 THEN <<>>
  ELSE (IF keyed
          THEN <<ByteOf("\"")>> \o KeyOf(s, list[n][1])
                 \o <<ByteOf("\""), ByteOf(":")>>
          ELSE <<>>)
         \o _ajson_dump_to_memory_no_comma(s, list[n][2])
         \o DumpEntries_no_comma(s, list, NextValued(list, n), keyed)

_ajson_dump_to_memory_no_comma(s, a) ==
  LET type == s.heap[a].type
      list == s.heap[a].list
  IN IF type = AJSON_OBJECT
       THEN <<ByteOf("{")>> \o DumpEntries_no_comma(s, list, First(list), TRUE)
              \o <<ByteOf("}")>>
     ELSE IF type = AJSON_ARRAY
       THEN <<ByteOf("[")>> \o DumpEntries_no_comma(s, list, First(list), FALSE)
              \o <<ByteOf("]")>>
     ELSE IF type = AJSON_STRING
       THEN <<ByteOf("\"")>> \o ajson_copy_valid_utf8(ValueBytes(s, a))
              \o <<ByteOf("\"")>>
     ELSE IF type \in ScalarTypes THEN ValueBytes(s, a)
     ELSE <<>>

RECURSIVE _ajson_dump_to_memory(_, _)
RECURSIVE ajson_dump_object_to_memory(_, _, _)
RECURSIVE ajson_dump_array_to_memory(_, _, _)

\* the loop of ajson_dump_object_to_memory from entry n of the list
ajson_dump_object_to_memory(s, list, n) ==
  IF n = 0 THEN <<>>
  ELSE LET next == NextValued(list, n)
       IN <<ByteOf("\"")>> \o KeyOf(s, list[n][1])
            \o <<ByteOf("\""), ByteOf(":")>>
            \o _ajson_dump_to_memory(s, list[n][2])
            \o (IF next # 0 THEN <<ByteOf(",")>> ELSE <<>>)
            \o ajson_dump_object_to_memory(s, list, next)

\* the loop of ajson_dump_array_to_memory from entry n of the list
ajson_dump_array_to_memory(s, list, n) ==
  IF n = 0 THEN <<>>
  ELSE LET next == NextValued(list, n)
       IN _ajson_dump_to_memory(s, list[n][2])
            \o (IF next # 0 THEN <<ByteOf(",")>> ELSE <<>>)
            \o ajson_dump_array_to_memory(s, list, next)

\* the bytes _ajson_dump_to_memory writes for node a
_ajson_dump_to_memory(s, a) ==
  LET type == s.heap[a].type
      list == s.heap[a].list
  IN IF type = AJSON_OBJECT
       THEN <<ByteOf("{")>> \o ajson_dump_object_to_memory(s, list, First(list))
              \o <<ByteOf("}")>>
     ELSE IF type = AJSON_ARRAY
       THEN <<ByteOf("[")>> \o ajson_dump_array_to_memory(s, list, First(list))
              \o <<ByteOf("]")>>
     ELSE IF type = AJSON_STRING
       THEN <<ByteOf("\"")>> \o ajson_copy_valid_utf8(ValueBytes(s, a))
              \o <<ByteOf("\"")>>
     ELSE IF type \in ScalarTypes THEN ValueBytes(s, a)
     ELSE <<>>

\* the bytes ajson_dump_to_memory writes before the final NUL
ajson_dump_to_memory(s, a) == _ajson_dump_to_memory(s, a)

RECURSIVE _ajson_dump_estimate(_, _)
RECURSIVE ajson_dump_object_estimate(_, _, _)
RECURSIVE ajson_dump_array_estimate(_, _, _)

\* what the loop of ajson_dump_object_estimate adds to sz from entry n on
ajson_dump_object_estimate(s, list, n) ==
  IF n = 0 THEN 0
  ELSE LET next == NextValued(list, n)
       IN 1 + Len(KeyOf(s, list[n][1])) + 1 + 1
            + _ajson_dump_estimate(s, list[n][2])
            + (IF next # 0 THEN 1 ELSE 0)
            + ajson_dump_object_estimate(s, list, next)

ajson_dump_array_estimate(s, list, n) ==
  IF n = 0 THEN 0
  ELSE LET next == NextValued(list, n)
       IN _ajson_dump_estimate(s, list[n][2])
            + (IF next # 0 THEN 1 ELSE 0)
            + ajson_dump_array_estimate(s, list, next)

_ajson_dump_estimate(s, a) ==
  LET type == s.heap[a].type
      list == s.heap[a].list
  IN IF type = AJSON_OBJECT
       THEN 1 + ajson_dump_object_estimate(s, list, First(list)) + 1
     ELSE IF type = AJSON_ARRAY
       THEN 1 + ajson_dump_array_estimate(s, list, First(list)) + 1
     ELSE IF type = AJSON_STRING THEN 2 + s.heap[a].length
     ELSE IF type \in ScalarTypes THEN s.heap[a].length
     ELSE 0

ajson_dump_estimate(s, a) == _ajson_dump_estimate(s, a) + 1

\* ajson_stringify: need = ajson_dump_estimate(a); ajson_dump_to_memory(s, a)
ajson_stringify(e, s, a) ==
  [e EXCEPT !.pc = "stringified",
            !.need = ajson_dump_estimate(s, a),
            !.dump = ajson_dump_to_memory(s, a)]

\* _pp_step: step > 0 ? step : 2
_pp_step(step) == IF step > 0 THEN step ELSE 2

\* had_any: the loop wrote an entry
HadAny(list) == \E j \in 1..Len(list) : list[j][2] # NULL

RECURSIVE _ajson_dump_pretty_estimate(_, _, _, _)
RECURSIVE _ajson_dump_pretty_estimate_object(_, _, _, _, _)
RECURSIVE _ajson_dump_pretty_estimate_array(_, _, _, _, _)

\* what the loop of _ajson_dump_pretty_estimate_object adds from entry n on
_ajson_dump_pretty_estimate_object(s, list, n, depth, step) ==
  IF n = 0 THEN 0
  ELSE LET next == NextValued(list, n)
       IN IF list[n][2] = NULL
            THEN _ajson_dump_pretty_estimate_object(s, list, next, depth, step)
            ELSE 1 + (depth + 1) * _pp_step(step)
                   + 1 + Len(KeyOf(s, list[n][1])) + 1
                   + 2
                   + _ajson_dump_pretty_estimate(s, list[n][2], depth + 1, step)
                   + (IF next # 0 THEN 1 ELSE 0)
                   + _ajson_dump_pretty_estimate_object(s, list, next, depth, step)

_ajson_dump_pretty_estimate_array(s, list, n, depth, step) ==
  IF n = 0 THEN 0
  ELSE LET next == NextValued(list, n)
       IN IF list[n][2] = NULL
            THEN _ajson_dump_pretty_estimate_array(s, list, next, depth, step)
            ELSE 1 + (depth + 1) * _pp_step(step)
                   + _ajson_dump_pretty_estimate(s, list[n][2], depth + 1, step)
                   + (IF next # 0 THEN 1 ELSE 0)
                   + _ajson_dump_pretty_estimate_array(s, list, next, depth, step)

_ajson_dump_pretty_estimate(s, a, depth, step) ==
  LET type == s.heap[a].type
      list == s.heap[a].list
      close == IF HadAny(list) THEN 1 + depth * _pp_step(step) ELSE 0
  IN IF type = AJSON_OBJECT
       THEN 2 + _ajson_dump_pretty_estimate_object(s, list, First(list),
                                                   depth, step) + close
     ELSE IF type = AJSON_ARRAY
       THEN 2 + _ajson_dump_pretty_estimate_array(s, list, First(list),
                                                  depth, step) + close
     ELSE IF type = AJSON_STRING THEN 2 + s.heap[a].length
     ELSE IF type \in ScalarTypes THEN s.heap[a].length
     ELSE 0

ajson_dump_pretty_estimate(s, a, indent_step) ==
  _ajson_dump_pretty_estimate(s, a, 0, indent_step) + 1

\* n blanks
RECURSIVE Blanks(_)
Blanks(n) == IF n <= 0 THEN <<>> ELSE <<ByteOf(" ")>> \o Blanks(n - 1)

\* an indent of depth * step blanks, whatever the step
_indent_mem_raw_step(depth, step) == Blanks(depth * step)

\* _indent_mem: depth * _pp_step(step) blanks
_indent_mem(depth, step) == Blanks(depth * _pp_step(step))

RECURSIVE _ajson_dump_pretty_to_memory(_, _, _, _)
RECURSIVE _dump_object_pretty_mem(_, _, _, _, _)
RECURSIVE _dump_array_pretty_mem(_, _, _, _, _)

\* what the loop of _dump_object_pretty_mem writes from entry n on
_dump_object_pretty_mem(s, list, n, depth, step) ==
  IF n = 0 THEN <<>>
  ELSE LET next == NextValued(list, n)
       IN IF list[n][2] = NULL
            THEN _dump_object_pretty_mem(s, list, next, depth, step)
            ELSE <<ByteOf("\n")>> \o _indent_mem(depth + 1, step)
                   \o <<ByteOf("\"")>> \o KeyOf(s, list[n][1])
                   \o <<ByteOf("\""), ByteOf(":"), ByteOf(" ")>>
                   \o _ajson_dump_pretty_to_memory(s, list[n][2], depth + 1, step)
                   \o (IF next # 0 THEN <<ByteOf(",")>> ELSE <<>>)
                   \o _dump_object_pretty_mem(s, list, next, depth, step)

_dump_array_pretty_mem(s, list, n, depth, step) ==
  IF n = 0 THEN <<>>
  ELSE LET next == NextValued(list, n)
       IN IF list[n][2] = NULL
            THEN _dump_array_pretty_mem(s, list, next, depth, step)
            ELSE <<ByteOf("\n")>> \o _indent_mem(depth + 1, step)
                   \o _ajson_dump_pretty_to_memory(s, list[n][2], depth + 1, step)
                   \o (IF next # 0 THEN <<ByteOf(",")>> ELSE <<>>)
                   \o _dump_array_pretty_mem(s, list, next, depth, step)

_ajson_dump_pretty_to_memory(s, a, depth, step) ==
  LET type == s.heap[a].type
      list == s.heap[a].list
      close == IF HadAny(list)
                 THEN <<ByteOf("\n")>> \o _indent_mem(depth, step) ELSE <<>>
  IN IF type = AJSON_OBJECT
       THEN <<ByteOf("{")>>
              \o _dump_object_pretty_mem(s, list, First(list), depth, step)
              \o close \o <<ByteOf("}")>>
     ELSE IF type = AJSON_ARRAY
       THEN <<ByteOf("[")>>
              \o _dump_array_pretty_mem(s, list, First(list), depth, step)
              \o close \o <<ByteOf("]")>>
     ELSE IF type = AJSON_STRING
       THEN <<ByteOf("\"")>> \o ajson_copy_valid_utf8(ValueBytes(s, a))
              \o <<ByteOf("\"")>>
     ELSE IF type \in ScalarTypes THEN ValueBytes(s, a)
     ELSE <<>>

\* ajson_stringify_pretty: size = the estimate; the bytes before the NUL
ajson_stringify_pretty(e, s, a, indent_step) ==
  [e EXCEPT !.pc = "pretty",
            !.step = indent_step,
            !.size = ajson_dump_pretty_estimate(s, a, indent_step),
            !.pretty = _ajson_dump_pretty_to_memory(s, a, 0, indent_step)]

\* the indent steps a caller passes
Steps == -1..MaxStep

(***************************************************************************)
(* The texts handed to the parser: every string of at most MaxTok bytes    *)
(* over bytes a number is written with and the blank, as the whole text,   *)
(* as the element of an array and as the member of an object; and a few    *)
(* documents that take the parser through strings, literals, nesting and   *)
(* commas.                                                                 *)
(***************************************************************************)
NumberBytes == {"0", "1", "-", ".", "e", "+", " "}

Tokens == UNION {[1..n -> NumberBytes] : n \in 1..MaxTok}

AsElement(tok) == <<"[">> \o tok \o <<"]">>

AsMember(tok) == <<"{", "\"", "k", "\"", ":">> \o tok \o <<"}">>

Documents ==
  { <<"{", "\"", "k", "\"", ":", "\"", "s", "\"", ",", " ",
      "\"", "k", "\"", ":", "[", "1", ",", "{", "}", "]", ",",
      "\"", "k", "\"", ":", "{", "\"", "k", "\"", ":", "t", "r", "u", "e",
      " ", "}", "}">>,
    <<"[", "\"", "s", "\"", ",", " ", "n", "u", "l", "l", " ", ",",
      "[", "f", "a", "l", "s", "e", "]", ",", "1", ".", "1", "e", "1", "]">>,
    <<"{", "\"", "k", "\"", ":", "1", ".", "1", "e", "-", "1", ",",
      "\"", "k", "\"", ":", "-", "0", ".", "1", "}">>,
    <<"\"", "s", "\"">>,
    <<"]">>,
    <<" ", "]">>,
    <<"}">>,
    <<",">>,
    <<" ", ":">>,
    <<>> }

(***************************************************************************)
(* Nested documents: a 1 or an empty container, wrapped up to MaxDepth     *)
(* times in an array or an object, alone, after a sibling, or followed by  *)
(* a comma (and a blank) before the container closes.                      *)
(***************************************************************************)
Leaves == { <<"1">>, <<"[", "]">>, <<"{", "}">> }

KeyK == <<"\"", "k", "\"", ":">>

Wrap(kind, shape, v) ==
  LET open == IF kind = "array" THEN <<"[">> ELSE <<"{">>
      close == IF kind = "array" THEN <<"]">> ELSE <<"}">>
      pre == IF kind = "array" THEN <<>> ELSE KeyK
  IN CASE shape = "only" -> open \o pre \o v \o close
       [] shape = "second" -> open \o pre \o <<"1", ",">> \o pre \o v \o close
       [] shape = "comma" -> open \o pre \o v \o <<",">> \o close
       [] shape = "comma_blank" -> open \o pre \o v \o <<",", " ">> \o close

RECURSIVE Nest(_)
Nest(d) ==
  IF d = 0 THEN Leaves
  ELSE LET inner == Nest(d - 1)
       IN inner \cup
          { Wrap(kind, shape, v) :
              kind \in {"array", "object"},
              shape \in {"only", "second", "comma", "comma_blank"},
              v \in inner }

Nested == Nest(MaxDepth)

(***************************************************************************)
(* String tokens: every string of at most MaxStr bytes over the backslash, *)
(* the quote, a letter, the bytes C3 A9 of a two-byte UTF-8 sequence and   *)
(* the byte C0, between two quotes, as the whole text, as an array         *)
(* element, as a member's value and as a member's key.                     *)
(***************************************************************************)
StringBytes == {"\\", "\"", "a", "xC3", "xA9", "xC0"}

StringToks == UNION {[1..n -> StringBytes] : n \in 0..MaxStr}

AsString(tok) == <<"\"">> \o tok \o <<"\"">>

AsKey(tok) == <<"{">> \o AsString(tok) \o <<":", "1", "}">>

Strings ==
  UNION { {AsString(t), AsElement(AsString(t)), AsMember(AsString(t)), AsKey(t)} :
            t \in StringToks }

(***************************************************************************)
(* Texts with bytes after a complete document: an empty container, or a    *)
(* container that holds a 1, an empty container or a string, alone or      *)
(* after a sibling, followed by at most MaxTail bytes over the blank,      *)
(* digits, a closing bracket, a comma, a quote and an opening brace.       *)
(***************************************************************************)
Heads ==
  {<<"[", "]">>, <<"{", "}">>, AsElement(AsString(<<"a">>)),
   AsMember(AsString(<<"a">>))}
    \cup {Wrap(kind, shape, v) : kind \in {"array", "object"},
                                shape \in {"only", "second"}, v \in Leaves}

TailBytes == {" ", "4", "2", "]", ",", "\"", "{"}

Tails == UNION {[1..n -> TailBytes] : n \in 1..MaxTail}

Trailing == {x \o g : x \in Heads, g \in Tails}

(***************************************************************************)
(* Texts with line ends: an opening bracket and at most MaxRow bytes over  *)
(* the line feed, a digit, the comma, the backslash and the quote.  None   *)
(* closes the array, so each ends in an error.                             *)
(***************************************************************************)
RowBytes == {"\n", "1", ",", "\\", "\""}

Rows == {<<"[">> \o t : t \in UNION {[1..n -> RowBytes] : n \in 1..MaxRow}}

(***************************************************************************)
(* Texts with bytes between a key and its colon: {"k" then at most MaxGap  *)
(* bytes over the blank, the tab, a letter and the comma, then :1}.        *)
(***************************************************************************)
GapBytes == {" ", "\t", "a", ","}

Gaps == UNION {[1..n -> GapBytes] : n \in 0..MaxGap}

Gapped(g) == <<"{", "\"", "k", "\"">> \o g \o <<":", "1", "}">>

GapTexts == {Gapped(g) : g \in Gaps}

Texts ==
  Tokens \cup {AsElement(t) : t \in Tokens} \cup {AsMember(t) : t \in Tokens}
    \cup Documents \cup Nested \cup Strings \cup Trailing \cup Rows
    \cup GapTexts

L_ajson_parse ==
  /\ ps.pc = "ajson_parse"
  /\ ps' = ajson_parse(ps)
  /\ UNCHANGED <<objvars, em, cs, ar>>

L_start_key ==
  /\ ps.pc = "start_key"
  /\ ps' = start_key(ps)
  /\ UNCHANGED <<objvars, em, cs, ar>>

L_get_end_of_key ==
  /\ ps.pc = "get_end_of_key"
  /\ ps' = get_end_of_key(ps)
  /\ UNCHANGED <<objvars, em, cs, ar>>

L_start_key_object ==
  /\ ps.pc = "start_key_object"
  /\ ps' = start_key_object(ps)
  /\ UNCHANGED <<objvars, em, cs, ar>>

L_keyed_start_string ==
  /\ ps.pc = "keyed_start_string"
  /\ ps' = keyed_start_string(ps)
  /\ UNCHANGED <<objvars, em, cs, ar>>

L_keyed_add_string ==
  /\ ps.pc = "keyed_add_string"
  /\ ps' = keyed_add_string(ps)
  /\ UNCHANGED <<objvars, em, cs, ar>>

L_look_for_key ==
  /\ ps.pc = "look_for_key"
  /\ ps' = look_for_key(ps)
  /\ UNCHANGED <<objvars, em, cs, ar>>

L_keyed_next_digit ==
  /\ ps.pc = "keyed_next_digit"
  /\ ps' = keyed_next_digit(ps)
  /\ UNCHANGED <<objvars, em, cs, ar>>

L_keyed_decimal_number ==
  /\ ps.pc = "keyed_decimal_number"
  /\ ps' = keyed_decimal_number(ps)
  /\ UNCHANGED <<objvars, em, cs, ar>>

L_start_value ==
  /\ ps.pc = "start_value"
  /\ ps' \in NullArrayOutcomes(start_value(ps))
  /\ UNCHANGED <<objvars, em, cs, ar>>

L_start_string ==
  /\ ps.pc = "start_string"
  /\ ps' = start_string(ps)
  /\ UNCHANGED <<objvars, em, cs, ar>>

L_add_string ==
  /\ ps.pc = "add_string"
  /\ ps' = add_string(ps)
  /\ UNCHANGED <<objvars, em, cs, ar>>

L_look_for_next_object ==
  /\ ps.pc = "look_for_next_object"
  /\ ps' = look_for_next_object(ps)
  /\ UNCHANGED <<objvars, em, cs, ar>>

L_next_digit ==
  /\ ps.pc = "next_digit"
  /\ ps' = next_digit(ps)
  /\ UNCHANGED <<objvars, em, cs, ar>>

L_decimal_number ==
  /\ ps.pc = "decimal_number"
  /\ ps' = decimal_number(ps)
  /\ UNCHANGED <<objvars, em, cs, ar>>

L_bad_character ==
  /\ ps.pc = "bad_character"
  /\ ps' = bad_character(ps)
  /\ UNCHANGED <<objvars, em, cs, ar>>

\* the parse has returned a node that is not an error node
(***************************************************************************)
(* ajson_dump_error_to_buffer.  m is the buffer as the parse left it;      *)
(* source and error_at are positions in it.  The report is the three       *)
(* numbers the format prints: row, column and bytes into json.             *)
(***************************************************************************)
\* while (p < ep) { ... }: <<row, (p - srow) + 1>> at the end of the loop
RECURSIVE RowFrom(_, _, _, _, _)
RowFrom(m, p, ep, row, srow) ==
  IF p < ep
    THEN IF m[p] = "\\" THEN RowFrom(m, p + 2, ep, row, srow)
         ELSE IF m[p] = "\n" THEN RowFrom(m, p + 1, ep, row + 1, p + 1)
         ELSE RowFrom(m, p + 1, ep, row, srow)
    ELSE <<row, (p - srow) + 1>>

ajson_dump_error_to_buffer(m, source, error_at) ==
  RowFrom(m, source, error_at, 1, source) \o <<error_at - source>>

\* what the byte after the slack byte may hold
Beyond == {NUL, "\n", "1"}

\* ajson_dump_error_to_buffer on the error node a parse returned
L_ajson_dump_error_to_buffer ==
  /\ ps.pc = "return" /\ ps.result # NULL
  /\ ps.heap[ps.result].type = AJSON_ERROR
  /\ em.pc = "idle"
  /\ \E b \in IF ps.error_at > ps.ep + 1 THEN Beyond ELSE {NUL} :
       em' = [em EXCEPT !.pc = "error",
                        !.report = ajson_dump_error_to_buffer(
                                     ps.mem \o <<b>>, 1, ps.error_at)]
  /\ UNCHANGED <<objvars, ps, cs, ar>>

Parsed == ps.pc = "return" /\ ps.result # NULL
            /\ ps.heap[ps.result].type # AJSON_ERROR

\* ajson_stringify on the tree a parse returned
L_ajson_stringify ==
  /\ Parsed
  /\ em.pc = "idle"
  /\ em' = ajson_stringify(em, ps, ps.result)
  /\ UNCHANGED <<objvars, ps, cs, ar>>

\* ajson_stringify_pretty on the tree a parse returned
L_ajson_stringify_pretty ==
  /\ Parsed
  /\ em.pc = "idle"
  /\ \E indent_step \in Steps :
        em' = ajson_stringify_pretty(em, ps, ps.result, indent_step)
  /\ UNCHANGED <<objvars, ps, cs, ar>>

\* the text that ajson_stringify wrote is parsed in its turn
L_parse_again ==
  /\ em.pc = "stringified"
  /\ em.round = 1
  /\ ps' = ParseStart(Chars(em.dump))
  /\ em' = [EmitIdle EXCEPT !.round = 2, !.first = em.dump]
  /\ UNCHANGED <<objvars, cs, ar>>

ParseInit ==
  /\ obj = ajsono
  /\ op = <<"ajsono", NULL, "NULL", NULL>>
  /\ ret = NULL
  /\ hist = NoCalls
  /\ ps \in {ParseStart(t) : t \in Texts}
  /\ em = EmitIdle
  /\ cs = CodecIdle
  /\ ar = ArrayIdle

ParseNext ==
  \/ L_ajson_parse
  \/ L_start_key
  \/ L_get_end_of_key
  \/ L_start_key_object
  \/ L_keyed_start_string
  \/ L_keyed_add_string
  \/ L_look_for_key
  \/ L_keyed_next_digit
  \/ L_keyed_decimal_number
  \/ L_start_value
  \/ L_start_string
  \/ L_add_string
  \/ L_look_for_next_object
  \/ L_next_digit
  \/ L_decimal_number
  \/ L_bad_character
  \/ L_ajson_stringify
  \/ L_ajson_stringify_pretty
  \/ L_parse_again
  \/ L_ajson_dump_error_to_buffer

SpecParse == ParseInit /\ [][ParseNext]_vars

(***************************************************************************)
(* Vocabulary of the claims about the parser.                              *)
(***************************************************************************)
\* the bytes a scalar node stores: `length` bytes from `value`
Literal(s, n) ==
  LET v == s.heap[n].value
  IN IF v[1] = "p" THEN SubSeq(s.mem, v[2], v[2] + s.heap[n].length - 1)
     ELSE IF v[1] = "0" THEN <<"0">>
     ELSE IF v[1] = "true" THEN <<"t", "r", "u", "e">>
     ELSE IF v[1] = "false" THEN <<"f", "a", "l", "s", "e">>
     ELSE <<"n", "u", "l", "l">>

NumberNodes(s) ==
  {n \in DOMAIN s.heap :
      s.heap[n].type \in {AJSON_ZERO, AJSON_NUMBER, AJSON_DECIMAL}}

\* the tag the literal text calls for
TagOf(text) ==
  IF text = <<"0">> THEN AJSON_ZERO
  ELSE IF "." \in Range(text) THEN AJSON_DECIMAL
  ELSE AJSON_NUMBER

(***************************************************************************)
(* C10.  In a tree the parser returns, every number node's tag is zero if  *)
(* its literal is exactly 0, decimal if the literal contains a `.`, and    *)
(* number otherwise, whether the literal was the whole text, an array      *)
(* element or an object member.                                            *)
(***************************************************************************)
C10_NumberTags ==
  Parsed => \A n \in NumberNodes(ps) :
               ps.heap[n].type = TagOf(Literal(ps, n))

\* the same for object members alone, where the keyed labels tag a literal
\* with a `.` as decimal
MemberNumberTags ==
  Parsed => \A n \in NumberNodes(ps) :
               (ps.heap[n].parent # NULL
                  /\ ps.heap[ps.heap[n].parent].type = AJSON_OBJECT)
                 => ps.heap[n].type = TagOf(Literal(ps, n))

(***************************************************************************)
(* The JSON number grammar: an optional minus; the digit 0 alone or a      *)
(* nonzero digit followed by digits; optionally a `.` with one or more     *)
(* digits; optionally e or E, an optional sign and one or more digits.     *)
(***************************************************************************)
\* the first index at or after i of t that holds no digit
RECURSIVE DigitsEnd(_, _)
DigitsEnd(t, i) ==
  IF i <= Len(t) /\ t[i] \in Digit THEN DigitsEnd(t, i + 1) ELSE i

\* where the part ends, or 0 if the text does not have it
IntEnd(t, i) ==
  IF i > Len(t) THEN 0
  ELSE IF t[i] = "0" THEN i + 1
  ELSE IF t[i] \in AJSON_NATURAL_NUMBER_CASE THEN DigitsEnd(t, i + 1)
  ELSE 0

FracEnd(t, i) ==
  IF i = 0 THEN 0
  ELSE IF i <= Len(t) /\ t[i] = "."
    THEN IF DigitsEnd(t, i + 1) > i + 1 THEN DigitsEnd(t, i + 1) ELSE 0
  ELSE i

ExpEnd(t, i) ==
  IF i = 0 THEN 0
  ELSE IF i <= Len(t) /\ t[i] \in {"e", "E"}
    THEN LET d == IF i + 1 <= Len(t) /\ t[i + 1] \in {"+", "-"}
                    THEN i + 2 ELSE i + 1
         IN IF DigitsEnd(t, d) > d THEN DigitsEnd(t, d) ELSE 0
  ELSE i

IsJsonNumber(t) ==
  LET a == IF Len(t) >= 1 /\ t[1] = "-" THEN 2 ELSE 1
  IN ExpEnd(t, FracEnd(t, IntEnd(t, a))) = Len(t) + 1

\* t without the white space around it
RECURSIVE Strip(_)
Strip(t) ==
  IF t = <<>> THEN t
  ELSE IF Head(t) \in AJSON_SPACE_CASE THEN Strip(Tail(t))
  ELSE IF t[Len(t)] \in AJSON_SPACE_CASE THEN Strip(SubSeq(t, 1, Len(t) - 1))
  ELSE t

\* the text between the brackets of AsElement, after the colon of AsMember
ElementText(text) == SubSeq(text, 2, Len(text) - 1)
MemberText(text) == SubSeq(text, 6, Len(text) - 1)

IsElementText(text) ==
  /\ Len(text) >= 2 /\ ElementText(text) \in Tokens
  /\ text = AsElement(ElementText(text))
IsMemberText(text) ==
  /\ Len(text) >= 6 /\ MemberText(text) \in Tokens
  /\ text = AsMember(MemberText(text))

\* the token of the text, blanks around it dropped
TokenOf(text) ==
  Strip(IF text[1] = "[" THEN ElementText(text) ELSE MemberText(text))

\* the parse returned a container whose one child is a number node
OneNumber ==
  /\ Parsed
  /\ Len(ps.heap[ps.result].list) = 1
  /\ ps.heap[ps.result].list[1][2] \in NumberNodes(ps)

TheNumber == ps.heap[ps.result].list[1][2]

(***************************************************************************)
(* C11.  A token in the place of an object member's value or of an array   *)
(* element is accepted as a number exactly when it matches the JSON number *)
(* grammar; any other token yields an error node; and the node of an       *)
(* accepted number stores exactly the literal text.                        *)
(***************************************************************************)
C11_NumberGrammar ==
  (ps.pc = "return" /\ (IsElementText(ps.text) \/ IsMemberText(ps.text))
     /\ TokenOf(ps.text) # <<>>)
    => /\ OneNumber <=> IsJsonNumber(TokenOf(ps.text))
       /\ ~IsJsonNumber(TokenOf(ps.text))
            => ps.heap[ps.result].type = AJSON_ERROR
       /\ OneNumber => Literal(ps, TheNumber) = TokenOf(ps.text)

C11_Witness ==
  /\ IsMemberText(ps.text)
  /\ OneNumber
  /\ TokenOf(ps.text) = <<"-", "1", "e", "1">>
  /\ Literal(ps, TheNumber) = <<"-", "1", "e", "1">>

\* the first index after i of t that holds no white space
RECURSIVE SpaceEnd(_, _)
SpaceEnd(t, i) ==
  IF i <= Len(t) /\ t[i] \in AJSON_SPACE_CASE THEN SpaceEnd(t, i + 1) ELSE i

\* a comma of t is followed, white space skipped, by a closing bracket
\* (the nested documents hold no comma inside a string)
TrailingComma(t) ==
  \E i \in 1..Len(t) :
     /\ t[i] = ","
     /\ SpaceEnd(t, i + 1) <= Len(t)
     /\ t[SpaceEnd(t, i + 1)] \in {"]", "}"}

(***************************************************************************)
(* C12.  A text in which a comma is followed, white space skipped, by `]`  *)
(* or `}` parses to an error node, at whatever depth the comma stands; and *)
(* a well-formed nested document, an empty container right after a comma   *)
(* included, is never rejected.                                            *)
(***************************************************************************)
C12_TrailingComma ==
  (ps.pc = "return" /\ ps.text \in Nested)
    => IF TrailingComma(ps.text)
         THEN ps.heap[ps.result].type = AJSON_ERROR
         ELSE Parsed

\* a trailing comma two containers deep has been refused
C12_Witness ==
  /\ ps.pc = "return"
  /\ ps.text = <<"{">> \o KeyK \o <<"[", "1", ",", " ", "]", "}">>
  /\ ps.heap[ps.result].type = AJSON_ERROR

\* [1,[]] and {"k":1,"k":{}} inside a container have been accepted
C12_Accepted ==
  /\ Parsed
  /\ ps.text \in { <<"[", "[", "1", ",", "[", "]", "]", "]">>,
                   <<"[">> \o Wrap("object", "second", <<"{", "}">>) \o <<"]">> }

\* the bytes a JSON value can begin with
ValueStart == {"{", "[", "\"", "-", "t", "f", "n"} \cup Digit

\* the text is empty or blank, or its first byte after the white space
\* cannot begin a value
NoValueStart(t) ==
  SpaceEnd(t, 1) > Len(t) \/ t[SpaceEnd(t, 1)] \notin ValueStart

(***************************************************************************)
(* C13.  On a text that is empty or all white space, or whose first byte   *)
(* after the white space cannot begin a JSON value, the parse does not     *)
(* fault and what it returns is an error node.                             *)
(***************************************************************************)
C13_NoValueIsError ==
  NoValueStart(ps.text)
    => /\ ps.pc # "fault"
       /\ ps.pc = "return"
            => (ps.result # NULL /\ ps.heap[ps.result].type = AJSON_ERROR)

\* the same for every such text but those whose first byte is `]`
C13_ExceptClosingBracket ==
  (NoValueStart(ps.text)
     /\ (SpaceEnd(ps.text, 1) <= Len(ps.text)
           => ps.text[SpaceEnd(ps.text, 1)] # "]"))
    => /\ ps.pc # "fault"
       /\ ps.pc = "return"
            => (ps.result # NULL /\ ps.heap[ps.result].type = AJSON_ERROR)

\* the backslashes that stand in a row right before index j of t
RECURSIVE BackslashesBefore(_, _)
BackslashesBefore(t, j) ==
  IF j > 1 /\ t[j - 1] = "\\" THEN 1 + BackslashesBefore(t, j - 1) ELSE 0

\* the first quote at or after i that follows an even number of backslashes
\* (Len(t) + 1 if there is none)
TokenEnd(t, i) ==
  LET ends == {j \in i..Len(t) :
                 t[j] = "\"" /\ BackslashesBefore(t, j) % 2 = 0}
  IN IF ends = {} THEN Len(t) + 1
     ELSE CHOOSE j \in ends : \A k \in ends : j <= k

\* the bytes of the token that opens at the quote before index i
TokenBytes(t, i) == SubSeq(t, i, TokenEnd(t, i) - 1)

\* the bytes of the zero-terminated string at offset k of the buffer
KeyBytes(s, k) == SubSeq(s.mem, k, SkipTo(s.mem, k, s.ep, NUL) - 1)

StringNodes(s) == {n \in DOMAIN s.heap : s.heap[n].type = AJSON_STRING}

(***************************************************************************)
(* C14.  A string or key token ends at the first quote that follows an     *)
(* even number (zero included) of backslashes in a row, a quote after an   *)
(* odd number staying in the content; and the bytes stored for the string  *)
(* or key are exactly the bytes between the opening quote and that quote.  *)
(***************************************************************************)
C14_StringEnd ==
  /\ \A n \in StringNodes(ps) :
       LET off == ps.heap[n].value[2]
       IN /\ ps.text[off - 1] = "\""
          /\ ps.heap[n].length = TokenEnd(ps.text, off) - off
          /\ Literal(ps, n) = TokenBytes(ps.text, off)
  /\ \A o \in DOMAIN ps.heap :
       \A i \in DOMAIN ps.heap[o].list :
          LET k == ps.heap[o].list[i][1]
          IN (ps.heap[o].type = AJSON_OBJECT)
               => /\ ps.text[k - 1] = "\""
                  /\ KeyBytes(ps, k) = TokenBytes(ps.text, k)
  /\ (ps.pc = "return" /\ ps.text # <<>> /\ ps.text[1] = "\"")
       => (Parsed <=> TokenEnd(ps.text, 2) <= Len(ps.text))

\* an array element that holds a quote after three backslashes
C14_Witness ==
  /\ Parsed
  /\ ps.heap[ps.result].type = AJSON_ARRAY
  /\ \E n \in StringNodes(ps) :
        Literal(ps, n) = <<"\\", "\\", "\\", "\"">>

\* a key that holds a quote after a backslash, and a letter
C14_KeyWitness ==
  /\ Parsed
  /\ \E o \in DOMAIN ps.heap : \E i \in DOMAIN ps.heap[o].list :
        /\ ps.heap[o].type = AJSON_OBJECT
        /\ KeyBytes(ps, ps.heap[o].list[i][1]) = <<"a", "\\", "\"", "a">>

(***************************************************************************)
(* Conforming texts without white space: a number token that matches the   *)
(* grammar, a string whose body is made of letters, two-byte UTF-8         *)
(* sequences and the escapes \\ and \", each as the whole text, as an      *)
(* array element and as a member's value (a string also as a key), and the *)
(* nested documents without a comma before a closing bracket.              *)
(***************************************************************************)
RECURSIVE ValidBody(_)
ValidBody(t) ==
  IF t = <<>> THEN TRUE
  ELSE IF t[1] = "a" THEN ValidBody(Tail(t))
  ELSE IF t[1] = "\\"
    THEN Len(t) >= 2 /\ t[2] \in {"\\", "\""} /\ ValidBody(SubSeq(t, 3, Len(t)))
  ELSE IF t[1] = "xC3"
    THEN Len(t) >= 2 /\ t[2] = "xA9" /\ ValidBody(SubSeq(t, 3, Len(t)))
  ELSE FALSE

ConformingTexts ==
  UNION { {t, AsElement(t), AsMember(t)} : t \in {n \in Tokens : IsJsonNumber(n)} }
    \cup UNION { {AsString(t), AsElement(AsString(t)), AsMember(AsString(t)),
                  AsKey(t)} : t \in {b \in StringToks : ValidBody(b)} }
    \cup {d \in Nested : ~TrailingComma(d)}

(***************************************************************************)
(* C15.  For a conforming JSON text without insignificant white space and  *)
(* with valid UTF-8 in its strings, the parse returns a node that is not   *)
(* an error node and the compact dump of it is the text, byte for byte.    *)
(***************************************************************************)
C15_DumpOfParse ==
  (em.round = 1 /\ ps.text \in ConformingTexts)
    => /\ ps.pc = "return" => Parsed
       /\ em.pc = "stringified" => em.dump = Bytes(ps.text)

\* a document three containers deep and a string with an escaped quote
\* and a two-byte sequence have been written back
C15_Witness ==
  /\ em.pc = "stringified"
  /\ em.round = 1
  /\ ps.text \in ConformingTexts
  /\ ps.text = Wrap("array", "second",
                 Wrap("object", "second", Wrap("array", "only", <<"{", "}">>)))

C15_StringWitness ==
  /\ em.pc = "stringified"
  /\ em.round = 1
  /\ ps.text = AsMember(AsString(<<"\\", "\"", "xC3", "xA9">>))
  /\ em.dump = Bytes(ps.text)

(***************************************************************************)
(* C16.  For a tree that a parse returned, strings with bytes that the     *)
(* writer filters out included, the parse of its compact dump returns a    *)
(* node that is not an error node, and the compact dump of that node is    *)
(* the compact dump of the tree.                                           *)
(***************************************************************************)
C16_DumpIsStable ==
  em.round = 2
    => /\ ps.pc # "fault"
       /\ ps.pc = "return" => Parsed
       /\ em.pc = "stringified" => em.dump = em.first

\* the same where the dump that is parsed again is a conforming text
C16_NothingDropped ==
  (em.round = 2 /\ ps.text \in ConformingTexts)
    => /\ ps.pc # "fault"
       /\ ps.pc = "return" => Parsed
       /\ em.pc = "stringified" => em.dump = em.first

(***************************************************************************)
(* Well-formed UTF-8 (Unicode, table 3-7; RFC 3629): the byte sequences    *)
(* that encode the code points 0..10FFFF without the surrogates, each in   *)
(* its shortest form.                                                      *)
(***************************************************************************)
RECURSIVE WellFormedFrom(_, _)
WellFormedFrom(b, i) ==
  LET n == Len(b)
      Cont(j) == j <= n /\ b[j] \in 128..191
      In(j, lo, hi) == j <= n /\ b[j] \in lo..hi
  IN IF i > n THEN TRUE
     ELSE LET c == b[i]
          IN IF c < 128 THEN WellFormedFrom(b, i + 1)
             ELSE IF c \in 194..223
               THEN Cont(i + 1) /\ WellFormedFrom(b, i + 2)
             ELSE IF c = 224
               THEN In(i + 1, 160, 191) /\ Cont(i + 2) /\ WellFormedFrom(b, i + 3)
             ELSE IF c \in (225..236) \cup (238..239)
               THEN Cont(i + 1) /\ Cont(i + 2) /\ WellFormedFrom(b, i + 3)
             ELSE IF c = 237
               THEN In(i + 1, 128, 159) /\ Cont(i + 2) /\ WellFormedFrom(b, i + 3)
             ELSE IF c = 240
               THEN /\ In(i + 1, 144, 191) /\ Cont(i + 2) /\ Cont(i + 3)
                    /\ WellFormedFrom(b, i + 4)
             ELSE IF c \in 241..243
               THEN /\ Cont(i + 1) /\ Cont(i + 2) /\ Cont(i + 3)
                    /\ WellFormedFrom(b, i + 4)
             ELSE IF c = 244
               THEN /\ In(i + 1, 128, 143) /\ Cont(i + 2) /\ Cont(i + 3)
                    /\ WellFormedFrom(b, i + 4)
             ELSE FALSE

ValidUtf8(b) == WellFormedFrom(b, 1)

(***************************************************************************)
(* C17.  The bytes ajson_dump_to_memory writes, the final NUL not counted, *)
(* are never more than ajson_dump_estimate less one; they are exactly that *)
(* many when no string value of the tree holds invalid UTF-8 and fewer     *)
(* when one does.                                                          *)
(***************************************************************************)
C17_EstimateExact ==
  em.pc = "stringified"
    => /\ Len(em.dump) <= em.need - 1
       /\ Len(em.dump) = em.need - 1
            <=> \A n \in StringNodes(ps) : ValidUtf8(ValueBytes(ps, n))

\* the same with "the filter drops no byte of it" in the place of "valid"
C17_EstimateExactUnlessDropped ==
  em.pc = "stringified"
    => /\ Len(em.dump) <= em.need - 1
       /\ Len(em.dump) = em.need - 1
            <=> \A n \in StringNodes(ps) :
                   ajson_copy_valid_utf8(ValueBytes(ps, n)) = ValueBytes(ps, n)

(***************************************************************************)
(* C18.  For a tree whose string values are valid UTF-8 and for every      *)
(* indent step, a step of 0 or less standing for 2, the length of the      *)
(* pretty output plus one is ajson_dump_pretty_estimate of the tree and    *)
(* the step, at every depth and with empty containers.                     *)
(***************************************************************************)
C18_PrettyEstimate ==
  (em.pc = "pretty"
     /\ \A n \in StringNodes(ps) : ValidUtf8(ValueBytes(ps, n)))
    => /\ Len(em.pretty) + 1 = em.size
       /\ em.step <= 0
            => em.pretty = _ajson_dump_pretty_to_memory(ps, ps.result, 0, 2)

\* three containers deep, an empty object innermost, written with step 0
C18_Witness ==
  /\ em.pc = "pretty"
  /\ em.step = 0
  /\ ps.text = Wrap("array", "second",
                 Wrap("object", "second", Wrap("array", "only", <<"{", "}">>)))
  /\ em.size = Len(em.pretty) + 1
  /\ Len(em.pretty) > Len(ps.text)

(***************************************************************************)
(* Part 3.  The escape codec and the UTF-8 filter on byte strings.         *)
(***************************************************************************)
\* the byte at index i of a buffer that ends with the NUL its maker wrote
At(s, i) == IF i <= Len(s) THEN s[i] ELSE 0

\* strlen of the zero-terminated buffer s
StrLen(s) ==
  LET zeros == {i \in 1..Len(s) : s[i] = 0}
  IN IF zeros = {} THEN Len(s)
     ELSE (CHOOSE i \in zeros : \A j \in zeros : i <= j) - 1

\* the digit %X prints for n < 16
HexDigit(n) == IF n < 10 THEN 48 + n ELSE 55 + n

\* a switch that copies the backslash as it is
EncodeByte_raw_backslash(b) ==
  IF b = 34 THEN <<92, 34>>
  ELSE IF b = 47 THEN <<92, 47>>
  ELSE IF b = 8 THEN <<92, 98>>
  ELSE IF b = 12 THEN <<92, 102>>
  ELSE IF b = 10 THEN <<92, 110>>
  ELSE IF b = 13 THEN <<92, 114>>
  ELSE IF b = 9 THEN <<92, 116>>
  ELSE IF b < 32
    THEN <<92, 117, 48, 48, HexDigit(b \div 16), HexDigit(b % 16)>>
  ELSE <<b>>

\* the switch of _ajson_encode on one byte
EncodeByte(b) ==
  IF b = 34 THEN <<92, 34>>
  ELSE IF b = 92 THEN <<92, 92>>
  ELSE IF b = 47 THEN <<92, 47>>
  ELSE IF b = 8 THEN <<92, 98>>
  ELSE IF b = 12 THEN <<92, 102>>
  ELSE IF b = 10 THEN <<92, 110>>
  ELSE IF b = 13 THEN <<92, 114>>
  ELSE IF b = 9 THEN <<92, 116>>
  ELSE IF b < 32
    THEN <<92, 117, 48, 48, HexDigit(b \div 16), HexDigit(b % 16)>>
  ELSE <<b>>

RECURSIVE EncodeFrom(_, _)
EncodeFrom(s, p) ==
  IF p > Len(s) THEN <<>> ELSE EncodeByte(s[p]) \o EncodeFrom(s, p + 1)

\* _ajson_encode: the bytes before p copied, the rest through the switch
_ajson_encode(s, p) == SubSeq(s, 1, p - 1) \o EncodeFrom(s, p)

\* ch < 0x20 || ch == '\"' || ch == '\\' || ch == '/' || ch == 0
NeedsEscape(ch) == ch < 32 \/ ch = 34 \/ ch = 92 \/ ch = 47 \/ ch = 0

\* ajson_encode: the input itself if no byte needs an escape
ajson_encode(s) ==
  LET need == {p \in 1..Len(s) : NeedsEscape(s[p])}
  IN IF need = {} THEN s
     ELSE _ajson_encode(s, CHOOSE p \in need : \A q \in need : p <= q)

\* ajson_encode_string_nocopy: v and vlen = (v == s) ? length : strlen(v)
ajson_encode_string_nocopy(s) ==
  LET v == ajson_encode(s)
      same == \A p \in 1..Len(s) : ~NeedsEscape(s[p])
  IN [value |-> v, length |-> IF same THEN Len(s) ELSE StrLen(v)]

\* the value of a hex digit, -1 for any other byte
HexVal(c) ==
  IF c \in 48..57 THEN c - 48
  ELSE IF c \in 65..70 THEN c - 55
  ELSE IF c \in 97..102 THEN c - 87
  ELSE -1

\* four hex digits at p, -1 if one of the bytes is no hex digit
Hex4(s, p) ==
  IF \E i \in 0..3 : HexVal(At(s, p + i)) = -1 THEN -1
  ELSE ((HexVal(At(s, p)) * 16 + HexVal(At(s, p + 1))) * 16
          + HexVal(At(s, p + 2))) * 16 + HexVal(At(s, p + 3))

\* the bytes unicode_to_utf8 writes at dest for the code point ch
Utf8Of(ch) ==
  IF ch < 128 THEN <<ch>>
  ELSE IF ch < 2048 THEN <<(ch \div 64) + 192, (ch % 64) + 128>>
  ELSE IF ch < 65536
    THEN <<(ch \div 4096) + 224, ((ch \div 64) % 64) + 128, (ch % 64) + 128>>
  ELSE IF ch < 1114112
    THEN <<(ch \div 262144) + 240, ((ch \div 4096) % 64) + 128,
           ((ch \div 64) % 64) + 128, (ch % 64) + 128>>
  ELSE <<>>

\* a unicode_to_utf8 that takes a high surrogate for a code unit like any
\* other and leaves the escape after it alone
unicode_to_utf8_no_pair(s, p) ==
  LET ch == Hex4(s, p)
  IN IF ch = -1 THEN [n |-> -1, bytes |-> <<>>, p |-> p]
     ELSE [n |-> Len(Utf8Of(ch)), bytes |-> Utf8Of(ch), p |-> p + 4]

\* unicode_to_utf8 with *src = p: what it returns (-1 on failure), the
\* bytes at dest and the new *src
unicode_to_utf8(s, p) ==
  LET ch == Hex4(s, p)
      fail == [n |-> -1, bytes |-> <<>>, p |-> p]
      ok(c, q) == [n |-> Len(Utf8Of(c)), bytes |-> Utf8Of(c), p |-> q]
  IN IF ch = -1 THEN fail
     ELSE IF ch >= 55296 /\ ch <= 56319
       THEN IF At(s, p + 4) # 92 \/ At(s, p + 5) # 117 THEN fail
            ELSE LET ch2 == Hex4(s, p + 6)
                 IN IF ch2 = -1 \/ ch2 < 56320 \/ ch2 > 57343 THEN fail
                    ELSE ok((ch - 55296) * 1024 + (ch2 - 56320) + 65536, p + 10)
     ELSE ok(ch, p + 4)

\* the loop of _ajson_decode from p, ep being the index after the input
RECURSIVE DecodeFrom(_, _, _)
DecodeFrom(s, p, ep) ==
  IF p >= ep THEN <<>>
  ELSE LET ch == At(s, p)
           e == At(s, p + 1)
       IN IF ch # 92 THEN <<ch>> \o DecodeFrom(s, p + 1, ep)
          ELSE IF e = 34 THEN <<34>> \o DecodeFrom(s, p + 2, ep)
          ELSE IF e = 92 THEN <<92>> \o DecodeFrom(s, p + 2, ep)
          ELSE IF e = 47 THEN <<47>> \o DecodeFrom(s, p + 2, ep)
          ELSE IF e = 98 THEN <<8>> \o DecodeFrom(s, p + 2, ep)
          ELSE IF e = 102 THEN <<12>> \o DecodeFrom(s, p + 2, ep)
          ELSE IF e = 110 THEN <<10>> \o DecodeFrom(s, p + 2, ep)
          ELSE IF e = 114 THEN <<13>> \o DecodeFrom(s, p + 2, ep)
          ELSE IF e = 116 THEN <<9>> \o DecodeFrom(s, p + 2, ep)
          ELSE IF e = 117
            THEN LET r == unicode_to_utf8(s, p + 2)
                 IN IF r.n = -1
                      THEN [i \in 1..6 |-> At(s, p + i - 1)]
                             \o DecodeFrom(s, p + 6, ep)
                      ELSE r.bytes \o DecodeFrom(s, r.p, ep)
          ELSE DecodeFrom(s, p + 2, ep)

\* _ajson_decode: the bytes before p copied, the rest decoded
_ajson_decode(s, p, length) ==
  SubSeq(s, 1, p - 1) \o DecodeFrom(s, p, length + 1)

\* ajson_decode2: the result and *rlen
ajson_decode2(s, length) ==
  LET bs == {p \in 1..length : s[p] = 92}
  IN IF bs = {} THEN [value |-> SubSeq(s, 1, length), rlen |-> length]
     ELSE LET r == _ajson_decode(s, CHOOSE p \in bs : \A q \in bs : p <= q,
                                 length)
          IN [value |-> r, rlen |-> Len(r)]

(***************************************************************************)
(* The byte strings handed to the codec and to the filter: at most         *)
(* MaxBytes bytes, for the filter over a letter, continuation bytes and    *)
(* lead bytes of every length (C0 and F5 among them), for the codec over   *)
(* NUL, control bytes, quote, solidus, backslash, u, 0 and a high byte.    *)
(***************************************************************************)
FilterBytes == {97, 128, 160, 192, 194, 224, 237, 240, 245}

CodecBytes == {0, 8, 31, 34, 47, 48, 92, 117, 195}

ByteStrings ==
  UNION {[1..n -> FilterBytes] \cup [1..n -> CodecBytes] : n \in 0..MaxBytes}

\* the four digits of the \u escapes handed to the decoder: 0041, 00e9,
\* 20AC, the high surrogates D800 and DBFF, the low surrogates DC00 and
\* DFFF, and 00G1, which is no hex quad
Quads ==
  {<<48, 48, 52, 49>>, <<48, 48, 101, 57>>, <<50, 48, 65, 67>>,
   <<68, 56, 48, 48>>, <<68, 66, 70, 70>>, <<68, 67, 48, 48>>,
   <<68, 70, 70, 70>>, <<48, 48, 71, 49>>}

\* a \u escape, the letter a, and the escape of a line feed
Pieces == {<<92, 117>> \o q : q \in Quads} \cup {<<97>>, <<92, 110>>}

RECURSIVE Joined(_)
Joined(n) ==
  IF n = 0 THEN {<<>>}
  ELSE Joined(n - 1) \cup {t \o q : t \in Joined(n - 1), q \in Pieces}

EscapeTexts == Joined(MaxPieces)

\* ajson_copy_valid_utf8(dest, src, len)
C_copy_valid_utf8 ==
  /\ cs.pc = "input"
  /\ cs' = [pc |-> "filtered", x |-> cs.x, out |-> ajson_copy_valid_utf8(cs.x)]
  /\ UNCHANGED <<objvars, ps, em, ar>>

\* ajson_encode_string_nocopy(pool, s, length)
C_encode ==
  /\ cs.pc = "input"
  /\ cs' = [pc |-> "encoded", x |-> cs.x, enc |-> ajson_encode_string_nocopy(cs.x)]
  /\ UNCHANGED <<objvars, ps, em, ar>>

\* ajson_decode2(&rlen, pool, j->value, j->length) on what encode returned
C_decode2 ==
  /\ cs.pc = "encoded"
  /\ cs' = [pc |-> "decoded", x |-> cs.x, enc |-> cs.enc,
            dec |-> ajson_decode2(cs.enc.value, cs.enc.length)]
  /\ UNCHANGED <<objvars, ps, em, ar>>

\* ajson_decode2(&rlen, pool, s, length) on the first length bytes of a
\* buffer: what follows them in memory is the rest of the buffer and then
\* zero bytes
C_decode2_input ==
  /\ cs.pc = "input"
  /\ \E length \in 0..Len(cs.x) :
       cs' = [pc |-> "decoded_input", x |-> cs.x, length |-> length,
              dec |-> ajson_decode2(cs.x, length)]
  /\ UNCHANGED <<objvars, ps, em, ar>>

CodecInit ==
  /\ obj = ajsono
  /\ op = <<"ajsono", NULL, "NULL", NULL>>
  /\ ret = NULL
  /\ hist = NoCalls
  /\ ps = ParseIdle
  /\ em = EmitIdle
  /\ cs \in {[pc |-> "input", x |-> b] : b \in ByteStrings \cup EscapeTexts}
  /\ ar = ArrayIdle

CodecNext ==
  \/ C_copy_valid_utf8
  \/ C_encode
  \/ C_decode2
  \/ C_decode2_input

SpecCodec == CodecInit /\ [][CodecNext]_vars

(***************************************************************************)
(* C19.  For every byte string, what the UTF-8 filter of the emitters      *)
(* writes is valid UTF-8 and is no longer than the input.                  *)
(***************************************************************************)
C19_FilterOutputValid ==
  cs.pc = "filtered"
    => /\ ValidUtf8(cs.out)
       /\ Len(cs.out) <= Len(cs.x)

\* what the filter does guarantee: the output is no longer than the input,
\* is made of lead bytes followed by the continuation bytes they announce,
\* and is the input when the input is valid UTF-8
C19_FilterOutputShaped ==
  cs.pc = "filtered"
    => /\ Len(cs.out) <= Len(cs.x)
       /\ ajson_copy_valid_utf8(cs.out) = cs.out
       /\ ValidUtf8(cs.x) => cs.out = cs.x

(***************************************************************************)
(* C20.  For every byte string x, control bytes, quotes, backslashes and   *)
(* the solidus included, decoding what encode returns for x gives back x   *)
(* with its length.                                                        *)
(***************************************************************************)
C20_DecodeOfEncode ==
  cs.pc = "decoded"
    => /\ cs.dec.value = cs.x
       /\ cs.dec.rlen = Len(cs.x)

\* a NUL, a quote, a backslash and an unprintable byte have come back
C20_Witness ==
  /\ cs.pc = "decoded"
  /\ cs.x = <<0, 34, 92, 31>>
  /\ cs.enc.length = 16
  /\ cs.dec.value = cs.x

(***************************************************************************)
(* The code point a byte string stands for in UTF-8, read off the bit      *)
(* layout of the encoding (0xxxxxxx, 110xxxxx 10xxxxxx, ...), -1 if the    *)
(* bytes do not have that layout, and the number of bytes the encoding of  *)
(* a code point has.                                                       *)
(***************************************************************************)
Tail6(b, i) == IF b[i] \in 128..191 THEN b[i] - 128 ELSE -1

CodePointOf(b) ==
  IF Len(b) = 1 /\ b[1] < 128 THEN b[1]
  ELSE IF Len(b) = 2 /\ b[1] \in 192..223 /\ Tail6(b, 2) # -1
    THEN (b[1] - 192) * 64 + Tail6(b, 2)
  ELSE IF Len(b) = 3 /\ b[1] \in 224..239
          /\ \A i \in 2..3 : Tail6(b, i) # -1
    THEN ((b[1] - 224) * 64 + Tail6(b, 2)) * 64 + Tail6(b, 3)
  ELSE IF Len(b) = 4 /\ b[1] \in 240..247
          /\ \A i \in 2..4 : Tail6(b, i) # -1
    THEN (((b[1] - 240) * 64 + Tail6(b, 2)) * 64 + Tail6(b, 3)) * 64
           + Tail6(b, 4)
  ELSE -1

EncodedLength(cp) ==
  IF cp < 128 THEN 1 ELSE IF cp < 2048 THEN 2 ELSE IF cp < 65536 THEN 3 ELSE 4

\* the bytes of out from q on are the UTF-8 encoding of cp
EncodingAt(out, q, cp) ==
  /\ q + EncodedLength(cp) - 1 <= Len(out)
  /\ CodePointOf(SubSeq(out, q, q + EncodedLength(cp) - 1)) = cp

\* the value of the hex digit c, read off the digit strings
UpperDigits == <<48, 49, 50, 51, 52, 53, 54, 55, 56, 57, 65, 66, 67, 68, 69, 70>>
LowerDigits == <<48, 49, 50, 51, 52, 53, 54, 55, 56, 57, 97, 98, 99, 100, 101, 102>>

DigitValue(c) ==
  LET at == {i \in 1..16 : UpperDigits[i] = c \/ LowerDigits[i] = c}
  IN IF at = {} THEN -1 ELSE (CHOOSE i \in at : TRUE) - 1

\* the code unit a \u escape at p of x names, -1 if x has no \u and four
\* hex digits there
CodeUnit(x, p) ==
  IF /\ p + 5 <= Len(x)
     /\ x[p] = 92
     /\ x[p + 1] = 117
     /\ \A i \in 2..5 : DigitValue(x[p + i]) # -1
    THEN DigitValue(x[p + 2]) * 4096 + DigitValue(x[p + 3]) * 256
           + DigitValue(x[p + 4]) * 16 + DigitValue(x[p + 5])
    ELSE -1

HighSurrogate(cu) == cu \in 55296..56319
LowSurrogate(cu) == cu \in 56320..57343

\* out from q on is what the text x from p on decodes to
RECURSIVE DecodesAs(_, _, _, _)
DecodesAs(x, p, out, q) ==
  IF p > Len(x) THEN q = Len(out) + 1
  ELSE IF x[p] # 92
    THEN /\ q <= Len(out)
         /\ out[q] = x[p]
         /\ DecodesAs(x, p + 1, out, q + 1)
  ELSE IF At(x, p + 1) = 110
    THEN /\ q <= Len(out)
         /\ out[q] = 10
         /\ DecodesAs(x, p + 2, out, q + 1)
  ELSE LET cu == CodeUnit(x, p)
           lo == CodeUnit(x, p + 6)
       IN IF cu = -1 \/ (HighSurrogate(cu) /\ ~LowSurrogate(lo))
            THEN /\ p + 5 <= Len(x)
                 /\ q + 5 <= Len(out)
                 /\ SubSeq(out, q, q + 5) = SubSeq(x, p, p + 5)
                 /\ DecodesAs(x, p + 6, out, q + 6)
          ELSE IF HighSurrogate(cu)
            THEN /\ EncodingAt(out, q, 65536 + (cu - 55296) * 1024 + (lo - 56320))
                 /\ DecodesAs(x, p + 12, out, q + 4)
          ELSE /\ EncodingAt(out, q, cu)
               /\ DecodesAs(x, p + 6, out, q + EncodedLength(cu))

\* a text of whole escapes has been decoded over its whole length
DecodedWhole ==
  /\ cs.pc = "decoded_input"
  /\ cs.x \in EscapeTexts
  /\ cs.length = Len(cs.x)

(***************************************************************************)
(* C21.  In the decoding of a text of \u escapes, a high surrogate with a  *)
(* \u low surrogate right after it gives the four bytes of the combined    *)
(* code point, a high surrogate without one and a \u without four hex      *)
(* digits give their six source bytes with decoding going on right after   *)
(* them, and every other code unit gives its own UTF-8 encoding.           *)
(***************************************************************************)
C21_UnicodeEscapes ==
  DecodedWhole
    => /\ DecodesAs(cs.x, 1, cs.dec.value, 1)
       /\ cs.dec.rlen = Len(cs.dec.value)

\* the high surrogate DBFF before another high surrogate is kept as it
\* is, and the pair D800 DC00 after it has become U+10000
C21_Witness ==
  /\ DecodedWhole
  /\ cs.x = <<92, 117, 68, 66, 70, 70,
              92, 117, 68, 56, 48, 48, 92, 117, 68, 67, 48, 48>>
  /\ cs.dec.value = <<92, 117, 68, 66, 70, 70, 240, 144, 128, 128>>

\* \u00G1 is kept as it is and the 20AC after it is decoded
C21_BadHexWitness ==
  /\ DecodedWhole
  /\ cs.x = <<92, 117, 48, 48, 71, 49, 92, 117, 50, 48, 65, 67>>
  /\ cs.dec.value = <<92, 117, 48, 48, 71, 49, 226, 130, 172>>

(***************************************************************************)
(* C22.  For every input of length n, those whose last escape is cut short *)
(* by the end of the input among them, the decoded output has at most n    *)
(* bytes and so fits the n + 1 bytes the decoder allocates.                *)
(***************************************************************************)
C22_DecodeNeverExpands ==
  cs.pc = "decoded_input"
    => /\ Len(cs.dec.value) <= cs.length
       /\ cs.dec.rlen <= cs.length

\* a backslash and a u whose six bytes do not all lie in the first n of x
CutEscape(x, n) ==
  \E p \in 1..n : p + 5 > n /\ x[p] = 92 /\ At(x, p + 1) = 117

\* what does hold: the output has at most n bytes unless a \u stands so
\* close to the end of the input that its six bytes reach past the end
C22_NoExpansionUnlessCut ==
  (cs.pc = "decoded_input" /\ ~CutEscape(cs.x, cs.length))
    => /\ Len(cs.dec.value) <= cs.length
       /\ cs.dec.rlen <= cs.length

(***************************************************************************)
(* Part 4.  The array: a doubly linked list of entries with a table of     *)
(* the entries for indexed reads, built on demand.                         *)
(***************************************************************************)
Nodes == 1..MaxNodes
Items == 1..MaxNodes     \* the value nodes a caller may attach
WILD == -1               \* what a read through a bad pointer or index gives

\* ajsona(): a zero-filled array
ajsona ==
  [ num_entries |-> 0,
    array       |-> "NULL",
    table       |-> <<>>,             \* the block array points to
    head        |-> NULL,
    tail        |-> NULL,
    nalloc      |-> 0,                \* entries allocated from the pool
    value       |-> [n \in Nodes |-> NULL],
    next        |-> [n \in Nodes |-> NULL],
    previous    |-> [n \in Nodes |-> NULL],
    parent      |-> [v \in Items |-> "NULL"] ] \* item->parent

\* ajsona_first / ajsona_next until NULL
ArrFwd(s) == Walk(s.next, s.head, MaxNodes + 1)
\* ajsona_last / ajsona_previous until NULL
ArrBwd(s) == Walk(s.previous, s.tail, MaxNodes + 1)

\* _ajsona_fill: the table is the list, the count what the walk counted
_ajsona_fill(s) ==
  [s EXCEPT !.array = "TABLE",
            !.table = ArrFwd(s),
            !.num_entries = Len(ArrFwd(s))]

\* arr->array[nth]
TableAt(s, nth) == IF nth + 1 <= Len(s.table) THEN s.table[nth + 1] ELSE WILD

\* n->value
ValueAt(s, n) == IF n \in Nodes THEN s.value[n] ELSE WILD

\* ajsona_nth: the array after the call and what the call returns
ajsona_nth(s, nth) ==
  IF nth < 0 \/ nth >= s.num_entries THEN [s |-> s, ret |-> NULL]
  ELSE LET s1 == IF s.array = "NULL" THEN _ajsona_fill(s) ELSE s
       IN [s |-> s1, ret |-> ValueAt(s1, TableAt(s1, nth))]

\* while (nth) { nth--; n = n->link; }
RECURSIVE Hop(_, _, _)
Hop(link, n, nth) ==
  IF nth = 0 THEN n
  ELSE IF n \notin Nodes THEN WILD
  ELSE Hop(link, link[n], nth - 1)

\* a scan that starts one entry too far from the tail
ajsona_scan_off_by_one(s, nth) ==
  IF nth < 0 \/ nth >= s.num_entries THEN NULL
  ELSE IF nth > s.num_entries \div 2
    THEN ValueAt(s, Hop(s.previous, s.tail, s.num_entries - nth))
    ELSE ValueAt(s, Hop(s.next, s.head, nth))

\* ajsona_scan
ajsona_scan(s, nth) ==
  IF nth < 0 \/ nth >= s.num_entries THEN NULL
  ELSE IF nth > s.num_entries \div 2
    THEN ValueAt(s, Hop(s.previous, s.tail, s.num_entries - nth - 1))
    ELSE ValueAt(s, Hop(s.next, s.head, nth))

\* an append that links the new entry forward only
ajsona_append_one_way(s, item) ==
  IF item = NULL THEN s
  ELSE LET node == s.nalloc + 1
           s1 == [s EXCEPT !.array = "NULL",
                           !.table = <<>>,
                           !.nalloc = node,
                           !.value[node] = item,
                           !.parent[item] = "j",
                           !.num_entries = @ + 1]
       IN IF s.tail # NULL
            THEN [s1 EXCEPT !.next[s.tail] = node,
                            !.tail = node]
            ELSE [s1 EXCEPT !.head = node, !.tail = node]

\* ajsona_append(j, item) on an array j
ajsona_append(s, item) ==
  IF item = NULL THEN s
  ELSE LET node == s.nalloc + 1
           s1 == [s EXCEPT !.array = "NULL",
                           !.table = <<>>,
                           !.nalloc = node,
                           !.value[node] = item,
                           !.parent[item] = "j",
                           !.num_entries = @ + 1]
       IN IF s.tail # NULL
            THEN [s1 EXCEPT !.previous[node] = s.tail,
                            !.next[s.tail] = node,
                            !.tail = node]
            ELSE [s1 EXCEPT !.head = node, !.tail = node]

\* ajsona_count, ajsona_first, ajsona_last
ajsona_count(s) == s.num_entries
ajsona_first(s) == s.head
ajsona_last(s) == s.tail

\* an erase that does not move the tail
ajsona_erase_keeps_tail(s, n) ==
  LET s1 == [s EXCEPT !.num_entries = @ - 1]
      s2 == IF s.previous[n] # NULL
              THEN [s1 EXCEPT !.next[s.previous[n]] = s.next[n]]
              ELSE [s1 EXCEPT !.head = s.next[n]]
      s3 == IF s.next[n] # NULL
              THEN [s2 EXCEPT !.previous[s.next[n]] = s.previous[n]]
              ELSE s2
  IN [s3 EXCEPT !.array = "NULL",
                !.table = <<>>,
                !.next[n] = NULL,
                !.previous[n] = NULL,
                !.parent[s.value[n]] = "NULL"]

\* ajsona_erase(n) for an entry n of this array
ajsona_erase(s, n) ==
  LET s1 == [s EXCEPT !.num_entries = @ - 1]
      s2 == IF s.previous[n] # NULL
              THEN [s1 EXCEPT !.next[s.previous[n]] = s.next[n]]
              ELSE [s1 EXCEPT !.head = s.next[n]]
      s3 == IF s.next[n] # NULL
              THEN [s2 EXCEPT !.previous[s.next[n]] = s.previous[n]]
              ELSE [s2 EXCEPT !.tail = s.previous[n]]
  IN [s3 EXCEPT !.array = "NULL",
                !.table = <<>>,
                !.next[n] = NULL,
                !.previous[n] = NULL,
                !.parent[s.value[n]] = "NULL"]

\* a clear that resets the array and leaves the entries as they were
ajsona_clear_keeps_entries(s) ==
  [s EXCEPT !.head = NULL,
            !.tail = NULL,
            !.num_entries = 0,
            !.array = "NULL",
            !.table = <<>>]

\* ajsona_clear(j) on an array j
ajsona_clear(s) ==
  LET list == Range(ArrFwd(s))
  IN [s EXCEPT !.parent = [v \in Items |->
                             IF \E n \in list : s.value[n] = v
                               THEN "NULL" ELSE @[v]],
               !.next = [n \in Nodes |-> IF n \in list THEN NULL ELSE @[n]],
               !.previous = [n \in Nodes |-> IF n \in list THEN NULL ELSE @[n]],
               !.head = NULL,
               !.tail = NULL,
               !.num_entries = 0,
               !.array = "NULL",
               !.table = <<>>]

(***************************************************************************)
(* ajsono_path on the array.  The path comes as the segments the split at  *)
(* the dots has made of it.  The items of the array are scalars.           *)
(***************************************************************************)
TheArray == MaxNodes + 1     \* the node j of the array, next to its items

\* the first index at or after i of seg that holds no white space
RECURSIVE SkipSpace(_, _)
SkipSpace(seg, i) ==
  IF i <= Len(seg) /\ seg[i] \in AJSON_SPACE_CASE THEN SkipSpace(seg, i + 1)
  ELSE i

\* the first index at or after i of seg that holds no digit
RECURSIVE SkipDigits(_, _)
SkipDigits(seg, i) ==
  IF i <= Len(seg) /\ seg[i] \in Digit THEN SkipDigits(seg, i + 1) ELSE i

\* the number the digits of seg from a up to b - 1 spell
RECURSIVE DecimalOf(_, _, _)
DecimalOf(seg, a, b) ==
  IF b <= a THEN 0
  ELSE DecimalOf(seg, a, b - 1) * 10
         + (CHOOSE d \in 0..9 : ByteOf(seg[b - 1]) = 48 + d)

\* sscanf(seg, "%zu", &num): white space is skipped, a sign is taken, then
\* the digits up to the first byte that is none; n is what sscanf returns
\* and num is the size_t as the int parameter of ajsona_scan receives it
\* (a number with a minus sign is negated)
sscanf_zu(seg) ==
  LET i0 == SkipSpace(seg, 1)
      signed == i0 <= Len(seg) /\ seg[i0] \in {"-", "+"}
      d0 == IF signed THEN i0 + 1 ELSE i0
      d1 == SkipDigits(seg, d0)
      val == DecimalOf(seg, d0, d1)
  IN IF i0 > Len(seg) THEN [n |-> -1, num |-> 0]
     ELSE IF d1 = d0 THEN [n |-> 0, num |-> 0]
     ELSE [n |-> 1, num |-> IF seg[i0] = "-" THEN 0 - val ELSE val]

\* strchr(seg, '=') finds a byte
HasEquals(seg) == \E i \in 1..Len(seg) : seg[i] = "="

\* ajsono_scan(j, key) for a node j that is no object
ajsono_scan_scalar(j, key) == NULL

\* ajsonv(j) for a null j
ajsonv_null == NULL

\* the array branch with '=': the first element whose member has the value
PathFilter(s, seg) ==
  LET hits == {i \in 1..Len(ArrFwd(s)) :
                 ajsono_scan_scalar(s.value[ArrFwd(s)[i]], seg) # ajsonv_null}
  IN IF hits = {} THEN NULL
     ELSE s.value[ArrFwd(s)[CHOOSE i \in hits : \A k \in hits : i <= k]]

\* the loop of ajsono_path from segment i on, j being the current node
RECURSIVE PathFrom(_, _, _, _)
PathFrom(s, j, paths, i) ==
  IF i > Len(paths) THEN j
  ELSE LET seg == paths[i]
           r == sscanf_zu(seg)
           nxt == IF j = TheArray
                    THEN IF HasEquals(seg) THEN PathFilter(s, seg)
                         ELSE IF r.n # 1 THEN NULL
                         ELSE ajsona_scan(s, r.num)
                    ELSE ajsono_scan_scalar(j, seg)
       IN IF nxt = NULL THEN NULL ELSE PathFrom(s, nxt, paths, i + 1)

\* ajsono_path(pool, j, path) on the array j
ajsono_path(s, paths) == PathFrom(s, TheArray, paths, 1)

(***************************************************************************)
(* The accessors and converters on a null node reference j.  A call that   *)
(* returns gives [fault |-> FALSE, ret |-> what it returns].  A read       *)
(* through the null reference is undefined: the call faults, or it goes on *)
(* with whatever the read gave and returns null or a wild value.           *)
(***************************************************************************)
Returns(r) == {[fault |-> FALSE, ret |-> r]}

NullRead ==
  {[fault |-> TRUE, ret |-> WILD], [fault |-> FALSE, ret |-> NULL],
   [fault |-> FALSE, ret |-> WILD]}

\* ajsonv(j) and ajsond(pool, j): if (j && ...) / if (!j) return NULL
ajsonv_of_null == NULL
ajsond_of_null == NULL

\* macro_to_int(str, default_value) for a null str
macro_to_int_of_null(default_value) == default_value

\* the object accessors: count, get_node, get, scanr, scan, find_node, find
NullObjectCall(f) ==
  CASE f = "ajsono_count" -> Returns(0)            \* if (!j) return 0;
    [] f = "ajsono_get_node" -> NullRead           \* if (!o->root)
    [] f = "ajsono_get" -> NullRead                \* if (!o->root || ...)
    [] f = "ajsono_scanr" -> Returns(NULL)         \* if (!j || ...) return NULL;
    [] f = "ajsono_scan" -> Returns(NULL)          \* if (!j || ...) return NULL;
    [] f = "ajsono_find_node" -> NullRead          \* if (!o->root || ...)
    [] f = "ajsono_find" -> NullRead               \* ajsono_find_node(j, key)

\* the array accessors: nth, nth_node, scan, count (nth is 0 in each call)
NullArrayCall(f) ==
  CASE f = "ajsona_nth" -> NullRead                \* nth >= arr->num_entries
    [] f = "ajsona_nth_node" -> NullRead           \* nth >= arr->num_entries
    [] f = "ajsona_scan" -> NullRead               \* nth >= arr->num_entries
    [] f = "ajsona_count" -> Returns(0)            \* if (!j) return 0;

\* the converters
NullConvert(f, default_value) ==
  CASE f = "ajsonv" -> Returns(ajsonv_of_null)
    [] f = "ajsond" -> Returns(ajsond_of_null)
    [] f = "ajson_to_int" -> Returns(macro_to_int_of_null(default_value))
    [] f = "ajson_to_str" ->
         Returns(IF ajsonv_of_null # NULL THEN ajsonv_of_null ELSE default_value)
    [] f = "ajson_to_strd" ->
         Returns(IF ajsond_of_null # NULL THEN ajsond_of_null ELSE default_value)

ObjectCalls ==
  {"ajsono_count", "ajsono_get_node", "ajsono_get", "ajsono_scanr",
   "ajsono_scan", "ajsono_find_node", "ajsono_find"}
ArrayCalls == {"ajsona_nth", "ajsona_nth_node", "ajsona_scan", "ajsona_count"}
Converters == {"ajsonv", "ajsond", "ajson_to_int", "ajson_to_str", "ajson_to_strd"}

\* the call f on a null j
NullCall(f, default_value) ==
  IF f \in ObjectCalls THEN NullObjectCall(f)
  ELSE IF f \in ArrayCalls THEN NullArrayCall(f)
  ELSE NullConvert(f, default_value)

(***************************************************************************)
(* The calls a client can make on the array.  ar.j is the array, ar.op     *)
(* the last call with its argument, ar.ret what it returned and ar.was     *)
(* the array as the last append, erase or clear found it.  The item        *)
(* appended is the first value node that is in no container, and erase is  *)
(* handed an entry of the array.  scan, path and the calls on a null       *)
(* reference leave the array as it is, so a run ends with them: ar.pc is   *)
(* "made" while the array is being built and read by nth, "looked" after a *)
(* scan or a path, "passed" after a call on a null reference that has      *)
(* returned and "fault" after one that has not.                            *)
(***************************************************************************)
Indexes == -1..MaxNodes

\* the first value node whose parent is null
FreeItem(s) ==
  LET free == {v \in Items : s.parent[v] = "NULL"}
  IN IF free = {} THEN NULL ELSE CHOOSE v \in free : \A w \in free : v <= w

Called(j, call, arg, r, before) ==
  [pc |-> IF call \in {"scan", "path"} THEN "looked" ELSE "made",
   j |-> j, op |-> call, arg |-> arg, ret |-> r, was |-> before]

A_append(item) ==
  /\ ar.pc = "made"
  /\ ar.j.nalloc < MaxNodes
  /\ item \in {NULL, FreeItem(ar.j)}
  /\ ar' = Called(ajsona_append(ar.j, item), "append", item, NULL, ar.j)
  /\ UNCHANGED <<objvars, ps, em, cs>>

A_erase(n) ==
  /\ ar.pc = "made"
  /\ n \in Range(ArrFwd(ar.j))
  /\ ar' = Called(ajsona_erase(ar.j, n), "erase", n, NULL, ar.j)
  /\ UNCHANGED <<objvars, ps, em, cs>>

A_clear ==
  /\ ar.pc = "made"
  /\ ar' = Called(ajsona_clear(ar.j), "clear", NULL, NULL, ar.j)
  /\ UNCHANGED <<objvars, ps, em, cs>>

A_nth(nth) ==
  /\ ar.pc = "made"
  /\ LET r == ajsona_nth(ar.j, nth)
     IN ar' = Called(r.s, "nth", nth, r.ret, r.s)
  /\ UNCHANGED <<objvars, ps, em, cs>>

A_scan(nth) ==
  /\ ar.pc = "made"
  /\ ar' = Called(ar.j, "scan", nth, ajsona_scan(ar.j, nth), ar.j)
  /\ UNCHANGED <<objvars, ps, em, cs>>

\* the segments: the empty one, digits alone (in and out of range, with a
\* leading zero), no number, a number in part, a number after a sign or a
\* blank, and segments with =; and the paths: one segment, or an index
\* and a 0 after it
Segments ==
  {<<>>, <<"0">>, <<"1">>, <<"0", "0">>, <<"0", "1">>, <<"1", "0">>,
   <<"x">>, <<"x", "1">>, <<"1", "x">>, <<"0", "x">>,
   <<"-", "0">>, <<"-", "1">>, <<"+", "1">>, <<" ", "1">>, <<"-">>,
   <<"=">>, <<"0", "=">>, <<"x", "=", "1">>}

Paths ==
  {<<seg>> : seg \in Segments}
    \cup {<<seg, <<"0">>>> : seg \in {<<"0">>, <<"x">>, <<"1", "x">>}}

A_path(paths) ==
  /\ ar.pc = "made"
  /\ ar' = Called(ar.j, "path", paths, ajsono_path(ar.j, paths), ar.j)
  /\ UNCHANGED <<objvars, ps, em, cs>>

\* the defaults a caller hands to a converter
Defaults == {1, 2}

\* the null reference ajsona_nth returned for an index out of range is
\* handed on to the call f
A_pass_on(f, default_value) ==
  /\ ar.pc = "made"
  /\ ar.op = "nth"
  /\ ar.ret = NULL
  /\ \E out \in NullCall(f, default_value) :
       ar' = [pc |-> IF out.fault THEN "fault" ELSE "passed",
              j |-> ar.j, op |-> f, arg |-> default_value, ret |-> out.ret,
              was |-> ar.j]
  /\ UNCHANGED <<objvars, ps, em, cs>>

ArrInit ==
  /\ obj = ajsono
  /\ op = <<"ajsono", NULL, "NULL", NULL>>
  /\ ret = NULL
  /\ hist = NoCalls
  /\ ps = ParseIdle
  /\ em = EmitIdle
  /\ cs = CodecIdle
  /\ ar = [pc |-> "made", j |-> ajsona, op |-> "ajsona", arg |-> NULL,
           ret |-> NULL, was |-> ajsona]

ArrNext ==
  \/ \E item \in Items \cup {NULL} : A_append(item)
  \/ \E n \in Nodes : A_erase(n)
  \/ A_clear
  \/ \E nth \in Indexes : A_nth(nth)
  \/ \E nth \in Indexes : A_scan(nth)
  \/ \E paths \in Paths : A_path(paths)
  \/ \E f \in ObjectCalls \cup ArrayCalls : A_pass_on(f, NULL)
  \/ \E f \in Converters, d \in Defaults : A_pass_on(f, d)

SpecArr == ArrInit /\ [][ArrNext]_vars

(***************************************************************************)
(* Vocabulary of the claims about the array.                               *)
(***************************************************************************)
\* the value of the i-th entry of the list, counted from 0, or NULL
IthOfList(s, i) ==
  IF i >= 0 /\ i < Len(ArrFwd(s)) THEN s.value[ArrFwd(s)[i + 1]] ELSE NULL

\* the list reads the same in both directions
TwoWay(s) == ArrBwd(s) = Reverse(ArrFwd(s))

(***************************************************************************)
(* C23.  After any sequence of append, erase, clear and indexed reads,     *)
(* nth(arr, i) and scan(arr, i) return the same node for every i: the      *)
(* value of the i-th entry of the current list for 0 <= i < count, and     *)
(* null for a negative i and for i >= count.                               *)
(***************************************************************************)
C23_NthIsScan ==
  ar.pc \in {"made", "looked"}
    => /\ ajsona_count(ar.j) = Len(ArrFwd(ar.j))
       /\ \A i \in Indexes :
            /\ ajsona_nth(ar.j, i).ret = IthOfList(ar.j, i)
            /\ ajsona_scan(ar.j, i) = IthOfList(ar.j, i)
       /\ ar.op \in {"nth", "scan"} => ar.ret = IthOfList(ar.j, ar.arg)

\* with the table built, a scan of five entries has walked back from the
\* tail to the fourth
C23_Witness ==
  /\ ar.pc = "looked"
  /\ ar.op = "scan"
  /\ ar.arg = 3
  /\ ar.j.num_entries = 5
  /\ ar.j.array = "TABLE"
  /\ ar.ret = ar.j.value[4]
  /\ ar.ret # NULL

\* after an erase of the head, nth has rebuilt the table and read from it
C23_AfterErase ==
  /\ ar.pc = "made"
  /\ ar.op = "nth"
  /\ ar.j.array = "TABLE"
  /\ ar.j.nalloc > ar.j.num_entries
  /\ ar.j.head > 1
  /\ ar.ret # NULL

(***************************************************************************)
(* C24.  An erase of an entry of the array, be it the head, in the middle  *)
(* or the tail, leaves the other entries linked in the order they had,     *)
(* with their values, and the count one less; the erased entry has null    *)
(* links and its value a null parent.                                      *)
(***************************************************************************)
C24_Erase ==
  (ar.pc = "made" /\ ar.op = "erase")
    => LET n == ar.arg
       IN /\ ArrFwd(ar.j) = SelectSeq(ArrFwd(ar.was), LAMBDA e : e # n)
          /\ TwoWay(ar.j)
          /\ ajsona_count(ar.j) = ajsona_count(ar.was) - 1
          /\ ajsona_count(ar.j) = Len(ArrFwd(ar.j))
          /\ ar.j.next[n] = NULL
          /\ ar.j.previous[n] = NULL
          /\ ar.j.parent[ar.was.value[n]] = "NULL"
          /\ \A e \in Range(ArrFwd(ar.j)) :
               /\ ar.j.value[e] = ar.was.value[e]
               /\ ar.j.parent[ar.j.value[e]] = "j"

\* an entry with a neighbour on each side has been erased
C24_Witness ==
  /\ ar.pc = "made"
  /\ ar.op = "erase"
  /\ ar.was.previous[ar.arg] # NULL
  /\ ar.was.next[ar.arg] # NULL
  /\ Len(ArrFwd(ar.j)) = 3

\* the head of a list of several entries has been erased
C24_HeadWitness ==
  /\ ar.pc = "made"
  /\ ar.op = "erase"
  /\ ar.was.head = ar.arg
  /\ ar.was.tail # ar.arg

\* the tail of a list of several entries has been erased
C24_TailWitness ==
  /\ ar.pc = "made"
  /\ ar.op = "erase"
  /\ ar.was.tail = ar.arg
  /\ ar.was.head # ar.arg

(***************************************************************************)
(* C25.  After clear the array has count 0, nothing to iterate over and a  *)
(* null nth(arr, 0), and the value of every entry it had has a null        *)
(* parent; an entry that has left the list never comes back to it, so the  *)
(* list later appends build holds none of the old entries.                 *)
(***************************************************************************)
Cleared ==
  (ar.pc = "made" /\ ar.op = "clear")
    => /\ ajsona_count(ar.j) = 0
       /\ ajsona_first(ar.j) = NULL
       /\ ajsona_last(ar.j) = NULL
       /\ ajsona_nth(ar.j, 0).ret = NULL
       /\ \A n \in Range(ArrFwd(ar.was)) :
            /\ ar.j.parent[ar.was.value[n]] = "NULL"
            /\ ar.j.next[n] = NULL
            /\ ar.j.previous[n] = NULL

OldEntriesStayOut ==
  ar.pc = "made"
    => \A n \in 1..ar.j.nalloc :
         n \notin Range(ArrFwd(ar.j)) => n \notin Range(ArrFwd(ar'.j))

C25_Clear == [](Cleared) /\ [][OldEntriesStayOut]_vars

\* an array of three entries whose table was built has been cleared
C25_Witness ==
  /\ ar.pc = "made"
  /\ ar.op = "clear"
  /\ ar.was.num_entries = 3
  /\ ar.was.array = "TABLE"
  /\ ar.j.parent = [v \in Items |-> "NULL"]

\* after a clear of three entries an append has made a list of the fourth
C25_FreshList ==
  /\ ar.pc = "made"
  /\ ar.op = "append"
  /\ ar.was.nalloc = 3
  /\ ar.was.head = NULL
  /\ ar.was.next[1] = NULL
  /\ ArrFwd(ar.j) = <<4>>

(***************************************************************************)
(* C26.  When the current node of a path evaluation is an array, a segment *)
(* without = selects an element only if it is made of decimal digits alone *)
(* and these name an index in range; for every other segment, one that is  *)
(* not a number, one that is a number only in part and one out of range,   *)
(* the whole path evaluates to null.                                       *)
(***************************************************************************)
AllDigits(seg) == seg # <<>> /\ \A i \in 1..Len(seg) : seg[i] \in Digit

NamesEntry(s, seg) ==
  AllDigits(seg) /\ DecimalOf(seg, 1, Len(seg) + 1) < ajsona_count(s)

PathAtArray == ar.pc = "looked" /\ ar.op = "path" /\ ~HasEquals(ar.arg[1])

C26_IndexSegment ==
  PathAtArray
    => /\ ar.ret # NULL => NamesEntry(ar.j, ar.arg[1])
       /\ (NamesEntry(ar.j, ar.arg[1]) /\ Len(ar.arg) = 1)
            => ar.ret = IthOfList(ar.j, DecimalOf(ar.arg[1], 1, Len(ar.arg[1]) + 1))

\* what does hold: a segment of digits alone selects the entry it names or
\* gives null if there is none, and a segment that does not begin with a
\* digit, white space or a sign gives null
C26_LeadingNumber ==
  PathAtArray
    => LET seg == ar.arg[1]
       IN /\ (NamesEntry(ar.j, seg) /\ Len(ar.arg) = 1)
               => ar.ret = IthOfList(ar.j, DecimalOf(seg, 1, Len(seg) + 1))
          /\ (AllDigits(seg) /\ ~NamesEntry(ar.j, seg)) => ar.ret = NULL
          /\ (seg = <<>> \/ seg[1] \in {"x"}) => ar.ret = NULL

(***************************************************************************)
(* C27.  A lookup miss can be passed on: scan, scan-reverse, get, find,    *)
(* nth, count and the converters, applied to a null node reference, do not *)
(* fault and return null, 0 or the default the caller gave.                *)
(***************************************************************************)
PassedOn == ar.op \in ObjectCalls \cup ArrayCalls \cup Converters

\* what the call is to return for a null reference
OfNull(f, default_value) ==
  IF f \in {"ajsono_count", "ajsona_count"} THEN 0
  ELSE IF f \in {"ajson_to_int", "ajson_to_str", "ajson_to_strd"}
    THEN default_value
  ELSE NULL

C27_NullPassesOn ==
  PassedOn => (ar.pc # "fault" /\ ar.ret = OfNull(ar.op, ar.arg))

\* what does hold: scan, scan-reverse, the two counts and the converters
\* return null, 0 or the default
C27_NullSafeCalls ==
  (/\ PassedOn
   /\ ar.op \in {"ajsono_scan", "ajsono_scanr", "ajsono_count", "ajsona_count"}
                  \cup Converters)
    => (ar.pc # "fault" /\ ar.ret = OfNull(ar.op, ar.arg))

(***************************************************************************)
(* The parse of a text run to its end: the statements at the label the     *)
(* parse stands at, again and again, until it has returned or faulted.     *)
(***************************************************************************)
AtLabel(s) ==
  CASE s.pc = "ajson_parse" -> ajson_parse(s)
    [] s.pc = "start_key" -> start_key(s)
    [] s.pc = "get_end_of_key" -> get_end_of_key(s)
    [] s.pc = "start_key_object" -> start_key_object(s)
    [] s.pc = "keyed_start_string" -> keyed_start_string(s)
    [] s.pc = "keyed_add_string" -> keyed_add_string(s)
    [] s.pc = "look_for_key" -> look_for_key(s)
    [] s.pc = "keyed_next_digit" -> keyed_next_digit(s)
    [] s.pc = "keyed_decimal_number" -> keyed_decimal_number(s)
    [] s.pc = "start_value" -> start_value(s)
    [] s.pc = "start_string" -> start_string(s)
    [] s.pc = "add_string" -> add_string(s)
    [] s.pc = "look_for_next_object" -> look_for_next_object(s)
    [] s.pc = "next_digit" -> next_digit(s)
    [] s.pc = "decimal_number" -> decimal_number(s)
    [] s.pc = "bad_character" -> bad_character(s)
    [] OTHER -> s

RECURSIVE ToTheEnd(_)
ToTheEnd(s) == IF AtLabel(s) = s THEN s ELSE ToTheEnd(AtLabel(s))

ParseOf(text) == ToTheEnd(ParseStart(text))

\* the text is x and bytes after it
Follows(text, x) ==
  Len(text) > Len(x) /\ SubSeq(text, 1, Len(x)) = x

(***************************************************************************)
(* C28.  Bytes after a complete top-level object or array are ignored: the *)
(* parse of the document followed by any bytes returns a tree that is no   *)
(* error node and is the tree the parse of the document alone returns,     *)
(* node for node and byte for byte.                                        *)
(***************************************************************************)
C28_TrailingBytes ==
  \A x \in Heads :
    (ps.pc = "return" /\ Follows(ps.text, x) /\ ps.text \in Trailing)
      => LET alone == ParseOf(x)
         IN /\ Parsed
            /\ alone.pc = "return"
            /\ ps.result = alone.result
            /\ ps.heap = alone.heap
            /\ SubSeq(ps.mem, 1, Len(x)) = SubSeq(alone.mem, 1, Len(x))

\* {"k":1,"k":[]} has been returned for the text that goes on with `,"`
C28_Witness ==
  /\ Parsed
  /\ ps.text = Wrap("object", "second", <<"[", "]">>) \o <<",", "\"">>
  /\ Len(ps.heap) = 3
  /\ ps.heap = ParseOf(Wrap("object", "second", <<"[", "]">>)).heap

(***************************************************************************)
(* What ajsono_get and ajsono_get_node return for the key k when each is   *)
(* called on the object as it stands; a fill in either sorts the same      *)
(* list, so both see the order srt.                                        *)
(***************************************************************************)
GetNodeIsGet(s, k, srt) ==
  LET g == ajsono_get(s, k, srt)
      n == ajsono_get_node(s, k, srt)
  IN /\ g.ret = ValueOf(n.st, n.ret)
     /\ (n.ret = NULL) = (g.ret = NULL)

(***************************************************************************)
(* C29, as stated.  In every index state (no index, snapshot active, tree  *)
(* active) get_node(o, k) returns the entry whose value get(o, k) returns, *)
(* and null exactly when get(o, k) returns null.                           *)
(***************************************************************************)
C29_GetNodeIsGet ==
  \A k \in Keys : \A srt \in SortChoices(obj, TRUE) :
    GetNodeIsGet(obj, k, srt)

(***************************************************************************)
(* What holds: with no index and with the snapshot active get_node         *)
(* returns the entry whose value get returns; with the tree active         *)
(* get_node returns null for every key.                                    *)
(***************************************************************************)
C29_ExceptTreeActive ==
  \A k \in Keys : \A srt \in SortChoices(obj, TRUE) :
    IF TreeActive(obj)
      THEN ajsono_get_node(obj, k, srt).ret = NULL
      ELSE GetNodeIsGet(obj, k, srt)

(***************************************************************************)
(* The three ways a tree comes about, side by side: the calls on an object *)
(* a caller builds, the parse of a text, and the calls on an array a       *)
(* caller builds.  Each run is one of the three from its first state on.   *)
(***************************************************************************)
TreeInit == ObjInit \/ ParseInit \/ ArrInit

TreeNext ==
  \/ (ps = ParseIdle /\ ar = ArrayIdle /\ ObjNext)
  \/ ParseNext
  \/ ArrNext

SpecTree == TreeInit /\ [][TreeNext]_vars

\* the values linked into the object, and into the array
ObjectValues == {obj.value[e] : e \in Linked(obj)} \ {NULL}
ArrayValues ==
  IF ar.pc = "idle" THEN {}
  ELSE {ar.j.value[n] : n \in Range(ArrFwd(ar.j))} \ {NULL}

\* the containers the parse made, and the nodes linked into one of them
Containers ==
  {n \in 1..Len(ps.heap) : ps.heap[n].type \in {AJSON_OBJECT, AJSON_ARRAY}}
ChildrenOf(n) == {ps.heap[n].list[i][2] : i \in 1..Len(ps.heap[n].list)}

C30_SetWitness ==
  /\ op[1] = "set" /\ ret # NULL
  /\ Cardinality(ObjectValues) = 1
  /\ \E v \in Vals : v \notin ObjectValues /\ obj.parent[v] = "j"

\* an erase has taken one of three items out of the array
C30_EraseWitness ==
  /\ ar.pc = "made" /\ ar.op = "erase"
  /\ Cardinality(ArrayValues) = 2
  /\ \E v \in Items : v \notin ArrayValues /\ ar.j.parent[v] = "NULL"

(***************************************************************************)
(* Part 5.  The emitters that write to an aml_buffer_t and to a FILE.      *)
(* A buffer and a stream are the bytes they hold; each call appends.       *)
(***************************************************************************)
\* an append that copies every byte of src
ajson_buffer_append_everything(bh, src) == bh \o src

\* ajson_buffer_append_valid_utf8: the loop from byte i of src (1-based)
RECURSIVE BufferAppendFrom(_, _, _)
BufferAppendFrom(bh, src, i) ==
  LET len == Len(src)
      c == src[i]
  IN IF i > len THEN bh
     ELSE IF c < 128 THEN BufferAppendFrom(Append(bh, c), src, i + 1)
     ELSE IF c \div 32 = 6 /\ i + 1 <= len
       THEN IF IsContinuation(src[i + 1])
              THEN BufferAppendFrom(bh \o <<c, src[i + 1]>>, src, i + 2)
              ELSE BufferAppendFrom(bh, src, i + 1)
     ELSE IF c \div 16 = 14 /\ i + 2 <= len
       THEN IF IsContinuation(src[i + 1]) /\ IsContinuation(src[i + 2])
              THEN BufferAppendFrom(bh \o <<c, src[i + 1], src[i + 2]>>,
                                    src, i + 3)
              ELSE BufferAppendFrom(bh, src, i + 1)
     ELSE IF c \div 8 = 30 /\ i + 3 <= len
       THEN IF /\ IsContinuation(src[i + 1])
               /\ IsContinuation(src[i + 2])
               /\ IsContinuation(src[i + 3])
              THEN BufferAppendFrom(
                     bh \o <<c, src[i + 1], src[i + 2], src[i + 3]>>,
                     src, i + 4)
              ELSE BufferAppendFrom(bh, src, i + 1)
     ELSE BufferAppendFrom(bh, src, i + 1)

ajson_buffer_append_valid_utf8(bh, src) == BufferAppendFrom(bh, src, 1)

RECURSIVE ajson_dump_to_buffer(_, _, _)
RECURSIVE ajson_dump_object_to_buffer(_, _, _, _)
RECURSIVE ajson_dump_array_to_buffer(_, _, _, _)

\* the loop of ajson_dump_object_to_buffer from entry n of the list
ajson_dump_object_to_buffer(bh, s, list, n) ==
  IF n = 0 THEN bh
  ELSE LET next == NextValued(list, n)
           b1 == Append(bh, ByteOf("\""))
           b2 == b1 \o KeyOf(s, list[n][1])
           b3 == b2 \o <<ByteOf("\""), ByteOf(":")>>
           b4 == ajson_dump_to_buffer(b3, s, list[n][2])
           b5 == IF next # 0 THEN Append(b4, ByteOf(",")) ELSE b4
       IN ajson_dump_object_to_buffer(b5, s, list, next)

\* the loop of ajson_dump_array_to_buffer from entry n of the list
ajson_dump_array_to_buffer(bh, s, list, n) ==
  IF n = 0 THEN bh
  ELSE LET next == NextValued(list, n)
           b1 == ajson_dump_to_buffer(bh, s, list[n][2])
           b2 == IF next # 0 THEN Append(b1, ByteOf(",")) ELSE b1
       IN ajson_dump_array_to_buffer(b2, s, list, next)

ajson_dump_to_buffer(bh, s, a) ==
  LET type == s.heap[a].type
      list == s.heap[a].list
  IN IF type = AJSON_OBJECT
       THEN Append(ajson_dump_object_to_buffer(Append(bh, ByteOf("{")), s,
                                               list, First(list)),
                   ByteOf("}"))
     ELSE IF type = AJSON_ARRAY
       THEN Append(ajson_dump_array_to_buffer(Append(bh, ByteOf("[")), s,
                                              list, First(list)),
                   ByteOf("]"))
     ELSE IF type = AJSON_STRING
       THEN Append(ajson_buffer_append_valid_utf8(Append(bh, ByteOf("\"")),
                                                  ValueBytes(s, a)),
                   ByteOf("\""))
     ELSE IF type \in ScalarTypes THEN bh \o ValueBytes(s, a)
     ELSE bh

(***************************************************************************)
(* ajson_dump_pretty_to_buffer: the buffer grows by the estimate less the  *)
(* NUL, the memory writer writes at the old end, and the buffer shrinks by *)
(* what was not written.                                                   *)
(***************************************************************************)
ajson_dump_pretty_to_buffer(bh, s, a, indent_step) ==
  LET need == ajson_dump_pretty_estimate(s, a, indent_step) - 1
      written == _ajson_dump_pretty_to_memory(s, a, 0, indent_step)
      wrote == Len(written)
  IN IF wrote < need THEN bh \o written
     ELSE bh \o SubSeq(written, 1, need)

\* ajson_file_write_valid_utf8: the loop from byte i of src (1-based)
RECURSIVE FileWriteFrom(_, _, _)
FileWriteFrom(out, src, i) ==
  LET len == Len(src)
      c == src[i]
  IN IF i > len THEN out
     ELSE IF c < 128 THEN FileWriteFrom(Append(out, c), src, i + 1)
     ELSE IF c \div 32 = 6 /\ i + 1 <= len
       THEN IF IsContinuation(src[i + 1])
              THEN FileWriteFrom(out \o <<c, src[i + 1]>>, src, i + 2)
              ELSE FileWriteFrom(out, src, i + 1)
     ELSE IF c \div 16 = 14 /\ i + 2 <= len
       THEN IF IsContinuation(src[i + 1]) /\ IsContinuation(src[i + 2])
              THEN FileWriteFrom(out \o <<c, src[i + 1], src[i + 2]>>,
                                 src, i + 3)
              ELSE FileWriteFrom(out, src, i + 1)
     ELSE IF c \div 8 = 30 /\ i + 3 <= len
       THEN IF /\ IsContinuation(src[i + 1])
               /\ IsContinuation(src[i + 2])
               /\ IsContinuation(src[i + 3])
              THEN FileWriteFrom(
                     out \o <<c, src[i + 1], src[i + 2], src[i + 3]>>,
                     src, i + 4)
              ELSE FileWriteFrom(out, src, i + 1)
     ELSE FileWriteFrom(out, src, i + 1)

ajson_file_write_valid_utf8(out, src) == FileWriteFrom(out, src, 1)

RECURSIVE ajson_dump(_, _, _)
RECURSIVE ajson_dump_object(_, _, _, _)
RECURSIVE ajson_dump_array(_, _, _, _)

\* the loop of ajson_dump_object from entry n of the list
ajson_dump_object(out, s, list, n) ==
  IF n = 0 THEN out
  ELSE LET next == NextValued(list, n)
           o1 == Append(out, ByteOf("\"")) \o KeyOf(s, list[n][1])
           o2 == o1 \o <<ByteOf("\""), ByteOf(":")>>
           o3 == ajson_dump(o2, s, list[n][2])
           o4 == IF next # 0 THEN Append(o3, ByteOf(",")) ELSE o3
       IN ajson_dump_object(o4, s, list, next)

\* the loop of ajson_dump_array from entry n of the list
ajson_dump_array(out, s, list, n) ==
  IF n = 0 THEN out
  ELSE LET next == NextValued(list, n)
           o1 == ajson_dump(out, s, list[n][2])
           o2 == IF next # 0 THEN Append(o1, ByteOf(",")) ELSE o1
       IN ajson_dump_array(o2, s, list, next)

ajson_dump(out, s, a) ==
  LET type == s.heap[a].type
      list == s.heap[a].list
  IN IF type = AJSON_OBJECT
       THEN Append(ajson_dump_object(Append(out, ByteOf("{")), s, list,
                                     First(list)),
                   ByteOf("}"))
     ELSE IF type = AJSON_ARRAY
       THEN Append(ajson_dump_array(Append(out, ByteOf("[")), s, list,
                                    First(list)),
                   ByteOf("]"))
     ELSE IF type = AJSON_STRING
       THEN Append(ajson_file_write_valid_utf8(Append(out, ByteOf("\"")),
                                               ValueBytes(s, a)),
                   ByteOf("\""))
     ELSE IF type \in ScalarTypes THEN out \o ValueBytes(s, a)
     ELSE out

\* _indent_file: depth * _pp_step(step) blanks
_indent_file(out, depth, step) == out \o Blanks(depth * _pp_step(step))

RECURSIVE _dump_pretty_file(_, _, _, _, _)
RECURSIVE _dump_object_pretty_file(_, _, _, _, _, _)
RECURSIVE _dump_array_pretty_file(_, _, _, _, _, _)

\* the loop of _dump_object_pretty_file from entry n of the list
_dump_object_pretty_file(out, s, list, n, depth, step) ==
  IF n = 0 THEN out
  ELSE LET next == NextValued(list, n)
           o1 == _indent_file(Append(out, ByteOf("\n")), depth + 1, step)
           o2 == Append(o1, ByteOf("\"")) \o KeyOf(s, list[n][1])
           o3 == o2 \o <<ByteOf("\""), ByteOf(":"), ByteOf(" ")>>
           o4 == _dump_pretty_file(o3, s, list[n][2], depth + 1, step)
           o5 == IF next # 0 THEN Append(o4, ByteOf(",")) ELSE o4
       IN IF list[n][2] = NULL
            THEN _dump_object_pretty_file(out, s, list, next, depth, step)
            ELSE _dump_object_pretty_file(o5, s, list, next, depth, step)

\* the loop of _dump_array_pretty_file from entry n of the list
_dump_array_pretty_file(out, s, list, n, depth, step) ==
  IF n = 0 THEN out
  ELSE LET next == NextValued(list, n)
           o1 == _indent_file(Append(out, ByteOf("\n")), depth + 1, step)
           o2 == _dump_pretty_file(o1, s, list[n][2], depth + 1, step)
           o3 == IF next # 0 THEN Append(o2, ByteOf(",")) ELSE o2
       IN IF list[n][2] = NULL
            THEN _dump_array_pretty_file(out, s, list, next, depth, step)
            ELSE _dump_array_pretty_file(o3, s, list, next, depth, step)

_dump_pretty_file(out, s, a, depth, step) ==
  LET type == s.heap[a].type
      list == s.heap[a].list
      \* if (!first) { fputc('\n', out); _indent_file(out, depth, step); }
      Close(o) == IF HadAny(list)
                    THEN _indent_file(Append(o, ByteOf("\n")), depth, step)
                    ELSE o
  IN IF type = AJSON_OBJECT
       THEN Append(Close(_dump_object_pretty_file(
                           Append(out, ByteOf("{")), s, list, First(list),
                           depth, step)),
                   ByteOf("}"))
     ELSE IF type = AJSON_ARRAY
       THEN Append(Close(_dump_array_pretty_file(
                           Append(out, ByteOf("[")), s, list, First(list),
                           depth, step)),
                   ByteOf("]"))
     ELSE IF type = AJSON_STRING
       THEN Append(ajson_file_write_valid_utf8(Append(out, ByteOf("\"")),
                                               ValueBytes(s, a)),
                   ByteOf("\""))
     ELSE IF type \in ScalarTypes THEN out \o ValueBytes(s, a)
     ELSE out

ajson_dump_pretty(out, s, a, indent_step) ==
  _dump_pretty_file(out, s, a, 0, indent_step)

(***************************************************************************)
(* The trees handed to the emitters: what the parse returns for the        *)
(* documents, the nested documents up to two containers deep and the       *)
(* strings (valid and invalid UTF-8 among them), and the same trees with   *)
(* the value of the second entry of the root taken out (an entry whose     *)
(* value is null, as ajsona_append of a null item leaves it).              *)
(***************************************************************************)
EmitTexts == Documents \cup Nest(2) \cup Strings

IsTree(s) ==
  s.pc = "return" /\ s.result # NULL /\ s.heap[s.result].type # AJSON_ERROR

SecondOut(s) ==
  IF Len(s.heap[s.result].list) >= 2
    THEN [s EXCEPT !.heap[s.result].list[2][2] = NULL]
    ELSE s

Trees ==
  LET parsed == {s \in {ParseOf(t) : t \in EmitTexts} : IsTree(s)}
  IN parsed \cup {SecondOut(s) : s \in parsed}

\* what a buffer or a stream holds before the call
Before == {<<>>, <<ByteOf("s")>>}

Emitted(by, pretty, step, was, out) ==
  [pc |-> "emitted", by |-> by, pretty |-> pretty, step |-> step,
   was |-> was, out |-> out]

E_ajson_dump_to_memory ==
  /\ em.pc = "idle"
  /\ em' = Emitted("memory", FALSE, 0, <<>>,
                   ajson_dump_to_memory(ps, ps.result))
  /\ UNCHANGED <<objvars, ps, cs, ar>>

E_ajson_dump_to_buffer(bh) ==
  /\ em.pc = "idle"
  /\ em' = Emitted("buffer", FALSE, 0, bh,
                   ajson_dump_to_buffer(bh, ps, ps.result))
  /\ UNCHANGED <<objvars, ps, cs, ar>>

E_ajson_dump(out) ==
  /\ em.pc = "idle"
  /\ em' = Emitted("stream", FALSE, 0, out, ajson_dump(out, ps, ps.result))
  /\ UNCHANGED <<objvars, ps, cs, ar>>

E_ajson_stringify_pretty(indent_step) ==
  /\ em.pc = "idle"
  /\ em' = Emitted("memory", TRUE, indent_step, <<>>,
                   ajson_stringify_pretty(EmitIdle, ps, ps.result,
                                          indent_step).pretty)
  /\ UNCHANGED <<objvars, ps, cs, ar>>

E_ajson_dump_pretty_to_buffer(bh, indent_step) ==
  /\ em.pc = "idle"
  /\ em' = Emitted("buffer", TRUE, indent_step, bh,
                   ajson_dump_pretty_to_buffer(bh, ps, ps.result,
                                               indent_step))
  /\ UNCHANGED <<objvars, ps, cs, ar>>

E_ajson_dump_pretty(out, indent_step) ==
  /\ em.pc = "idle"
  /\ em' = Emitted("stream", TRUE, indent_step, out,
                   ajson_dump_pretty(out, ps, ps.result, indent_step))
  /\ UNCHANGED <<objvars, ps, cs, ar>>

EmitInit ==
  /\ obj = ajsono
  /\ op = <<"ajsono", NULL, "NULL", NULL>>
  /\ ret = NULL
  /\ hist = NoCalls
  /\ ps \in Trees
  /\ em = EmitIdle
  /\ cs = CodecIdle
  /\ ar = ArrayIdle

EmitNext ==
  \/ E_ajson_dump_to_memory
  \/ \E bh \in Before : E_ajson_dump_to_buffer(bh)
  \/ \E out \in Before : E_ajson_dump(out)
  \/ \E indent_step \in Steps : E_ajson_stringify_pretty(indent_step)
  \/ \E bh \in Before, indent_step \in Steps :
       E_ajson_dump_pretty_to_buffer(bh, indent_step)
  \/ \E out \in Before, indent_step \in Steps :
       E_ajson_dump_pretty(out, indent_step)

SpecEmit == EmitInit /\ [][EmitNext]_vars

\* the tree holds a string that the filter shortens
HasInvalidString(s) ==
  \E n \in 1..Len(s.heap) :
    /\ s.heap[n].type = AJSON_STRING
    /\ ajson_copy_valid_utf8(ValueBytes(s, n)) # ValueBytes(s, n)

(***************************************************************************)
(* C31.  For every tree and every indent step the memory, the buffer and   *)
(* the stream emitters write the same bytes, compact with compact and      *)
(* pretty with pretty, also for strings that hold invalid UTF-8: what an   *)
(* emitter has appended to the bytes it found is what the memory writer    *)
(* writes for the tree.                                                    *)
(***************************************************************************)
C31_EmittersAgree ==
  em.pc = "emitted" =>
    em.out = em.was \o
      (IF em.pretty
         THEN _ajson_dump_pretty_to_memory(ps, ps.result, 0, em.step)
         ELSE ajson_dump_to_memory(ps, ps.result))

\* the stream writer has written, pretty, an array that holds a string
\* with invalid UTF-8
C31_Witness ==
  /\ em.pc = "emitted" /\ em.by = "stream" /\ em.pretty /\ em.step = 3
  /\ ps.heap[ps.result].type = AJSON_ARRAY
  /\ HasInvalidString(ps)
  /\ Len(em.out) > 6

\* the buffer writer has written, compact, a tree with a null value in it
C31_NullValueWitness ==
  /\ em.pc = "emitted" /\ em.by = "buffer" /\ ~em.pretty
  /\ em.was # <<>>
  /\ \E i \in 1..Len(ps.heap[ps.result].list) :
       ps.heap[ps.result].list[i][2] = NULL

(***************************************************************************)
(* Vocabulary of the claim about the error report.                         *)
(***************************************************************************)
\* the line feeds of the input t from byte i up to the byte before `end`,
\* the byte after a backslash being stepped over
RECURSIVE NewlinesBefore(_, _, _)
NewlinesBefore(t, i, end) ==
  IF i >= end \/ i > Len(t) THEN 0
  ELSE IF t[i] = "\\" THEN NewlinesBefore(t, i + 2, end)
  ELSE (IF t[i] = "\n" THEN 1 ELSE 0) + NewlinesBefore(t, i + 1, end)

Reported == em.pc = "error"

(***************************************************************************)
(* C32, as stated.  For an error node the reported row is one plus the     *)
(* number of line feeds the original input holds before the error          *)
(* position (a byte stepped over after a backslash not counted), and the   *)
(* reported byte offset is error_at minus the start of the source.         *)
(***************************************************************************)
C32_RowOfInput ==
  Reported =>
    /\ em.report[1] = 1 + NewlinesBefore(ps.text, 1, ps.error_at)
    /\ em.report[3] = ps.error_at - 1

\* the input bytes before the error position are still in the buffer
Untouched ==
  /\ ps.error_at <= ps.ep
  /\ \A i \in 1..(ps.error_at - 1) : ps.mem[i] = ps.text[i]

(***************************************************************************)
(* What holds: the byte offset is error_at minus the source start for      *)
(* every error node, and the row is the row of the input whenever the      *)
(* parse has left the bytes before the error position as they were.        *)
(***************************************************************************)
C32_RowOfBuffer ==
  Reported =>
    /\ em.report[3] = ps.error_at - 1
    /\ Untouched => em.report[1] = 1 + NewlinesBefore(ps.text, 1, ps.error_at)

\* a report on the second row of an input the parse has not written to
C32_SecondRow ==
  Reported /\ Untouched /\ em.report[1] = 2

\* the row reported for [1 and a line feed is 1: the line feed after the
\* number has been overwritten by the NUL that ends the number
C32_LostRow ==
  /\ Reported
  /\ ps.text = <<"[", "1", "\n">>
  /\ ps.error_at = ps.ep
  /\ em.report = <<1, 4, 3>>

(***************************************************************************)
(* Vocabulary of the claim about the bytes between a key and its colon.    *)
(***************************************************************************)
Whitespace == {" ", "\t", "\n", "\r"}

OnlyWhitespace(g) == \A i \in 1..Len(g) : g[i] \in Whitespace

Returned == ps.pc = "return" /\ ps.result # NULL

IsErrorNode == Returned /\ ps.heap[ps.result].type = AJSON_ERROR

(***************************************************************************)
(* C33, as stated.  Between the closing quote of a key and the colon the   *)
(* parser accepts only whitespace: with only whitespace there the member   *)
(* is parsed, and any other byte there yields an error node.               *)
(***************************************************************************)
C33_OnlyWhitespaceBeforeColon ==
  \A g \in Gaps :
    (ps.pc = "return" /\ ps.text = Gapped(g)) =>
       IF OnlyWhitespace(g) THEN Parsed ELSE IsErrorNode

(***************************************************************************)
(* What holds: every byte between the key and the colon is stepped over,   *)
(* whitespace or not; the parse returns the object with the one member.    *)
(***************************************************************************)
C33_GapSteppedOver ==
  \A g \in Gaps :
    (ps.pc = "return" /\ ps.text = Gapped(g)) =>
       /\ Parsed
       /\ Len(ps.heap) = 2
       /\ ps.heap[ps.result].type = AJSON_OBJECT
       /\ Len(ps.heap[ps.result].list) = 1
       /\ LET member == ps.heap[ps.result].list[1]
          IN /\ KeyBytes(ps, member[1]) = <<"k">>
             /\ ps.heap[member[2]].type = AJSON_NUMBER
             /\ Literal(ps, member[2]) = <<"1">>

\* {"k"a,:1} has been parsed as an object
C33_Accepted ==
  Parsed /\ ps.text = Gapped(<<"a", ",">>) /\ Len(ps.heap) = 2

(***************************************************************************)
(* Vocabulary of the claims about insert and the tree.                     *)
(***************************************************************************)
\* the tree a find would search holds exactly the linked entries: find is
\* about to build it, or it is there and no entry is missing or left over
TreeCurrent(s) == FindNeedsFill(s) \/ s.tree = Linked(s)

InsertDone(s, k, v) ==
  /\ Cardinality(WithKey(s, k)) = 1
  /\ ajsono_scan(s, k) = v
  /\ ajsono_find(s, k).ret = v

(***************************************************************************)
(* C34, as stated.  On an object with at most one entry per key an insert  *)
(* never makes a second entry with the key, whatever calls came before:    *)
(* afterwards exactly one entry has the key, and scan and find return the  *)
(* value inserted.                                                         *)
(***************************************************************************)
C34_InsertKeepsKeysUnique ==
  [][(op'[1] = "insert" /\ UniqueKeys(obj)) =>
        InsertDone(obj', op'[2], op'[4])]_objvars

(***************************************************************************)
(* What holds: the same, for an insert made when the tree holds exactly    *)
(* the linked entries (no entry was appended since the tree was built).    *)
(***************************************************************************)
C34_InsertWithCurrentTree ==
  [][(op'[1] = "insert" /\ UniqueKeys(obj) /\ TreeCurrent(obj)) =>
        InsertDone(obj', op'[2], op'[4])]_objvars

\* an insert has added a second entry with a key
C34_Duplicate ==
  /\ op[1] = "insert"
  /\ Cardinality(WithKey(obj, op[2])) = 2
  /\ Len(ListFwd(obj)) = 2

(***************************************************************************)
(* C35.  After any sequence of append, set, insert and remove on an object *)
(* and of append, erase and clear on an array, the count of the container  *)
(* is the number of entries reached from head by next, the walk from tail  *)
(* by previous visits the same entries in reverse order, head has no       *)
(* previous entry and tail has no next entry.                              *)
(***************************************************************************)
WellLinked(count, fwd, bwd, head, tail, next, previous) ==
  /\ count = Len(fwd)
  /\ bwd = Reverse(fwd)
  /\ (head = NULL) <=> (tail = NULL)
  /\ head # NULL => previous[head] = NULL
  /\ tail # NULL => next[tail] = NULL

C35_ListsWellLinked ==
  /\ WellLinked(obj.num_entries, ListFwd(obj), ListBwd(obj),
                obj.head, obj.tail, obj.next, obj.previous)
  /\ ar.pc # "idle" =>
       WellLinked(ajsona_count(ar.j), ArrFwd(ar.j), ArrBwd(ar.j),
                  ar.j.head, ar.j.tail, ar.j.next, ar.j.previous)

\* an array has taken an entry after it lost one, and holds several
C35_Witness ==
  /\ ar.pc = "made"
  /\ ar.op = "append"
  /\ ar.j.nalloc > ar.j.num_entries
  /\ ar.j.num_entries >= 2
  /\ ar.j.tail = ar.j.nalloc

\* an object has lost its head by remove and keeps two entries
C35_ObjectWitness ==
  /\ op[1] = "remove" /\ ret = 1
  /\ Len(ListFwd(obj)) = 2
  /\ obj.head = 2

(***************************************************************************)
(* C36.  After any sequence of calls on an object, every entry reachable   *)
(* through the active index, the snapshot or the tree, is linked in the    *)
(* entry list, and get and find return null or the value of a linked       *)
(* entry with the key asked for, never that of a removed entry.            *)
(***************************************************************************)
\* v is the value of an entry with key k that is linked now, or null
OfLinked(s, k, v) ==
  v # NULL => \E e \in Linked(s) : s.key[e] = k /\ s.value[e] = v

C36_IndexedAreLinked ==
  /\ RootAsTree(obj) \subseteq Linked(obj)
  /\ SnapshotActive(obj) => Range(RootAsArray(obj)) \subseteq Linked(obj)
  /\ \A k \in Keys :
       /\ ajsono_find_node(obj, k).ret \in Linked(obj) \cup {NULL}
       /\ OfLinked(obj, k, ajsono_find(obj, k).ret)
       /\ \A srt \in SortChoices(obj, GetNeedsFill(obj)) :
            OfLinked(obj, k, ajsono_get(obj, k, srt).ret)

\* a remove has erased a member of the tree, and the tree holds others
C36_Witness ==
  /\ op[1] = "remove" /\ ret = 1
  /\ op[3] = "TREE"
  /\ TreeActive(obj)
  /\ Cardinality(obj.tree) = Len(ListFwd(obj))
  /\ obj.nalloc > Len(ListFwd(obj))

\* a remove has dropped a snapshot, and a get has built the next one
C36_SnapshotWitness ==
  /\ op[1] = "get"
  /\ SnapshotActive(obj)
  /\ obj.nalloc > Len(ListFwd(obj))
  /\ ret # NULL

(***************************************************************************)
(* C37.  Whenever remove reaches the tree branch of ajsono_erase, the      *)
(* entry it hands to macro_map_erase is a member of the tree at that       *)
(* moment, whatever calls came before.                                     *)
(***************************************************************************)
\* ajsono_erase of the entry remove(k) finds calls macro_map_erase
TreePath(s, k) ==
  /\ ScanNode(s, k) # NULL
  /\ s.root # "NULL"
  /\ s.num_sorted_entries = 0

C37_ErasesAMember ==
  [][(op'[1] = "remove" /\ TreePath(obj, op'[2]))
       => ScanNode(obj, op'[2]) \in RootAsTree(obj)]_objvars

\* with a tree that holds every linked entry, the erased entry is a
\* member and the tree loses exactly that entry
C37_ErasesAMemberOfCurrentTree ==
  [][(op'[1] = "remove" /\ TreePath(obj, op'[2])
        /\ RootAsTree(obj) = Linked(obj))
       => /\ ScanNode(obj, op'[2]) \in RootAsTree(obj)
          /\ obj'.tree = obj.tree \ {ScanNode(obj, op'[2])}]_objvars

\* a remove has erased an entry appended after the tree was built
C37_NotAMember ==
  /\ op[1] = "remove" /\ ret = 1
  /\ op[3] = "TREE"
  /\ obj.nalloc = 2
  /\ Len(ListFwd(obj)) = 1
  /\ obj.head = 1
  /\ obj.tree \subseteq {1}

(***************************************************************************)
(* C38.  On an object whose keys have always been unique and on which no   *)
(* plain append was made after its first get or find, get(o, k),           *)
(* find(o, k) and scan(o, k) return the same value for every key k.        *)
(***************************************************************************)
\* the three lookups, made now, give the same value for every key
LookupsAgree(s) ==
  \A k \in Keys :
    /\ ajsono_find(s, k).ret = ajsono_scan(s, k)
    /\ \A srt \in SortChoices(s, GetNeedsFill(s)) :
         ajsono_get(s, k, srt).ret = ajsono_scan(s, k)

C38_LookupsAgree ==
  (hist.looked /\ ~hist.dup /\ ~hist.late) => LookupsAgree(obj)

\* the same, for an object on which no plain append was made while root
\* was set
C38_LookupsAgreeWithoutStaleAppend ==
  (~hist.dup /\ ~hist.stale) => LookupsAgree(obj)

\* after a find, a set has added a second key to the tree and a remove has
\* taken the first one out, with no append since root was first set
C38_Witness ==
  /\ hist.looked /\ ~hist.dup /\ ~hist.stale
  /\ op[1] = "remove" /\ ret = 1
  /\ TreeActive(obj)
  /\ obj.nalloc > Len(ListFwd(obj))
  /\ obj.head > 1

\* an insert built the tree, an append followed, and only then came the
\* first find: it misses the appended key
C38_AppendAfterInsert ==
  /\ hist.looked /\ ~hist.late /\ ~hist.dup /\ hist.stale
  /\ op[1] = "find" /\ ret = NULL
  /\ ajsono_scan(obj, op[2]) # NULL

(***************************************************************************)
(* C39.  An error node returned by ajson_parse(p, ep) has error_at within  *)
(* [p, ep]: the byte offset it reports, error_at minus the start of the    *)
(* source, never exceeds the length of the input.                          *)
(***************************************************************************)
C39_ErrorAtWithinInput ==
  IsErrorNode =>
    /\ ps.error_at >= 1
    /\ ps.error_at <= ps.ep
    /\ ps.error_at - 1 <= Len(ps.text)

\* what holds: error_at is at most two bytes past ep
C39_ErrorAtNearInput ==
  IsErrorNode => ps.error_at \in 1..(ps.ep + 2)

\* the empty input: error_at is one past ep, the offset 1 for a length 0
C39_EmptyInput ==
  /\ IsErrorNode
  /\ ps.text = <<>>
  /\ ps.error_at = ps.ep + 1

\* a key whose closing quote is never found: error_at is two past ep
C39_OpenKey ==
  /\ IsErrorNode
  /\ ps.text # <<>>
  /\ ps.error_at = ps.ep + 2

(***************************************************************************)
(* The parse of a text whose buffer goes on after ep.  The caller owes the *)
(* parser one writable byte at ep and says nothing of what it holds: here  *)
(* it holds a NUL, a digit or a closing bracket, and the two bytes after   *)
(* it are NUL.                                                             *)
(***************************************************************************)
SlackBytes == {NUL, "1", "]"}

ParseStartIn(text, b) ==
  [ParseStart(text) EXCEPT !.mem = text \o <<b, NUL, NUL>>]

SlackInit ==
  /\ obj = ajsono
  /\ op = <<"ajsono", NULL, "NULL", NULL>>
  /\ ret = NULL
  /\ hist = NoCalls
  /\ ps \in {ParseStartIn(t, b) : t \in Texts, b \in SlackBytes}
  /\ em = EmitIdle
  /\ cs = CodecIdle
  /\ ar = ArrayIdle

SpecSlack == SlackInit /\ [][ParseNext]_vars

(***************************************************************************)
(* C40.  What ajson_parse(p, ep) returns depends on the bytes of [p, ep)   *)
(* only: whatever the byte at ep holds, the tree or the error is the one   *)
(* returned with a NUL there, and no token takes in a byte at or after ep. *)
(***************************************************************************)
\* the parses s and r have returned the same tree or the same error
SameResult(s, r) ==
  /\ s.result = r.result
  /\ s.error_at = r.error_at
  /\ s.heap = r.heap
  /\ \A n \in DOMAIN s.heap : Literal(s, n) = Literal(r, n)

\* the bytes of every token of s lie before ep
TokensInside(s) ==
  \A n \in DOMAIN s.heap :
    s.heap[n].value[1] = "p" => s.heap[n].value[2] + s.heap[n].length <= s.ep

C40_OnlyTheInput ==
  ps.pc = "return" =>
    /\ SameResult(ps, ParseOf(ps.text))
    /\ TokensInside(ps)

\* what holds: a string token never takes in a byte at or after ep
C40_StringsInside ==
  ps.pc = "return" =>
    \A n \in StringNodes(ps) :
      ps.heap[n].value[2] + ps.heap[n].length <= ps.ep

\* the text 1 with a 1 in the byte at ep is returned as the number 11
C40_SlackInNumber ==
  /\ Returned
  /\ ps.text = <<"1">>
  /\ ps.heap[ps.result].type = AJSON_NUMBER
  /\ Literal(ps, ps.result) = <<"1", "1">>

\* the text [1 with a ] in the byte at ep is returned as an array
C40_SlackClosesArray ==
  /\ Returned
  /\ ps.text = <<"[", "1">>
  /\ ps.heap[ps.result].type = AJSON_ARRAY

====
